---- MODULE Spec2Model ----
(***************************************************************************)
(* Job store (app/monitor.py, class TaskMonitor) and job dispatcher        *)
(* (app/colab_runner.py, class ColabManager) as one state machine.         *)
(*                                                                         *)
(* The store is a SQLite table `tasks` plus the in-memory active-task     *)
(* table and task history; beside it TaskMonitor keeps the tables          *)
(* `system_metrics` and `alerts`, a cached reading, and two background     *)
(* threads that sample and sweep.  The dispatcher is a FIFO queue, one     *)
(* background processor thread, a results dictionary and callers that poll *)
(* it.                                                                     *)
(***************************************************************************)
EXTENDS Integers, Sequences, FiniteSets, TLC

VARIABLES
    now,            \* wall clock in whole seconds: time.time(), CURRENT_TIMESTAMP
    \* ---- TaskMonitor
    tasks,          \* rows of the SQLite table `tasks`
    nextRowId,      \* AUTOINCREMENT counter of `tasks`
    active_tasks,   \* keys of self.active_tasks
    task_history,   \* self.task_history: how many entries log_task appended, and the newest
    dbLocked,       \* a leaked connection still holds SQLite's write lock
    raised,         \* what the last store call raised ("none" when it returned)
    alerts,         \* rows of the SQLite table `alerts`
    nextAlertId,    \* AUTOINCREMENT counter of `alerts`
    memAlerts,      \* len(self.alerts), the in-memory deque of alerts
    system_metrics, \* rows of the SQLite table `system_metrics`
    nextMetricId,   \* AUTOINCREMENT counter of `system_metrics`
    metrics,        \* self.metrics, the cached latest reading
    monPc,          \* monitor thread: "collect", "check" or "sleep"
    monWake,        \* monitor thread: earliest end of its time.sleep
    monLog,         \* what the monitor thread's last sampling step logged
    cleanPc,        \* cleanup thread: "cleanup" or "sleep"
    cleanWake,      \* cleanup thread: earliest end of its time.sleep
    cleanLog,       \* what the cleanup thread's last step logged
    \* ---- ColabManager
    is_connected,   \* self.is_connected
    task_queue,     \* self.task_queue, head first
    results,        \* self.results: task_id -> outcome
    procPc,         \* processor thread: "get" (blocked in Queue.get) or "exec"
    procTask,       \* the task_data the processor holds
    callerPc,       \* per caller: position inside execute_task
    callerTask,     \* per caller: task_id of the job it waits for
    callerJob,      \* per caller: submission number of the job it waits for
    callerStart,    \* per caller: start_time
    callerWake,     \* per caller: earliest end of the current time.sleep(1)
    callerRet,      \* per caller: what the last execute_task call returned
    \* ---- history of the dispatcher's events, by submission number
    nextJob,        \* submissions accepted so far
    enqueued,       \* submission numbers in the order of task_queue.put
    startedJobs,    \* submission numbers in the order _execute_colab_task began
    finishedJobs,   \* submission numbers in the order the outcome was written
    timedOut,       \* submission numbers whose execute_task returned a timeout
    connectAttempts, \* connect_to_colab calls made by the latest execute_task call
    \* ---- VideoPipeline
    stagePc,        \* per thread: "idle", "dispatched" (inside execute_task) or
                    \* "assembling" (inside the with block of a local stage)
    stageCall,      \* per thread: the stage call it is in, or made last
    stageDir,       \* per thread: tmp_dir of the with block it is in
    stageRet,       \* per thread: how its last stage call ended
    tmpDirs,        \* the temporary directories that exist
    written,        \* the output paths written so far, in order
    nextCall,       \* stage calls made so far
    lastExtended    \* what the latest extend_video call that returned handed back:
                    \* the path and the duration of the file there

storeVars == <<tasks, nextRowId, active_tasks, task_history, dbLocked, raised>>
dispVars == <<is_connected, task_queue, results, procPc, procTask, callerPc,
              callerTask, callerJob, callerStart, callerWake, callerRet>>
monVars == <<alerts, nextAlertId, memAlerts, system_metrics, nextMetricId, metrics,
             monPc, monWake, monLog, cleanPc, cleanWake, cleanLog>>
histVars == <<nextJob, enqueued, startedJobs, finishedJobs, timedOut, connectAttempts>>
pipeVars == <<stagePc, stageCall, stageDir, stageRet, tmpDirs, written, nextCall,
              lastExtended>>
vars == <<now, storeVars, monVars, dispVars, histVars, pipeVars>>

(***************************************************************************)
(* Bounds of the model.                                                    *)
(***************************************************************************)
MaxTime == 2        \* the clock stops here
MaxHistory == 3     \* log_task calls explored
MaxJobs == 2        \* execute_task submissions explored
TimeoutSeconds == 1 \* config['colab']['max_run_time'], in seconds
MaxAlerts == 3      \* rows ever inserted into `alerts`
MaxSamples == 2     \* rows ever inserted into `system_metrics`
DayLength == 1      \* clock units in one day of the retention horizons
DefaultDaysToKeep == 1  \* days_to_keep when cleanup_old_data is called without it
MetricsDays == 1    \* the fixed horizon of `system_metrics`, in days
MaxCalls == 2       \* stage calls explored

(***************************************************************************)
(* Values.                                                                 *)
(***************************************************************************)
NoTime == -1        \* SQL NULL in a TIMESTAMP or REAL column
NULL == "NULL"      \* SQL NULL / Python None in a TEXT column

HashModulus == 10000

TaskIdOf(sec, h) == <<"task", sec, h>>      \* f"task_{sec}_{h:04d}"

\* task ids the store's callers pass to log_task / update_task_result
TaskIds == {TaskIdOf(0, 17), TaskIdOf(1, 17)}

TerminalStatuses == {"completed", "failed", "cancelled"}
Statuses == {"created", "started"} \cup TerminalStatuses

\* (task_type, user, parameters) of a log_task call; only the 'created' branch
\* of log_task writes them to the table
Metas == {[task_type |-> "generate_images", user |-> "alice", parameters |-> "p1"],
          [task_type |-> "upscale_image", user |-> "bob", parameters |-> "empty"]}

ResultPaths == {NULL, "r1"}
ErrorMessages == {NULL, "e1"}

(***************************************************************************)
(* TaskMonitor: the table `tasks`.                                         *)
(***************************************************************************)
RowsOf(tid) == {r \in tasks : r.task_id = tid}
HasRow(tid) == RowsOf(tid) # {}
RowOf(tid) == CHOOSE r \in tasks : r.task_id = tid
StatusOf(tid) == IF HasRow(tid) THEN RowOf(tid).status ELSE "none"

\* json.dumps(parameters) if parameters else None
ParametersColumn(p) == IF p = "empty" THEN NULL ELSE p

NewRow(tid, meta) ==
    [id |-> nextRowId, task_id |-> tid, task_type |-> meta.task_type,
     status |-> "created", user |-> meta.user, created_at |-> now,
     started_at |-> NoTime, completed_at |-> NoTime, duration |-> NoTime,
     result_path |-> NULL, error_message |-> NULL,
     parameters |-> ParametersColumn(meta.parameters)]

\* INSERT OR REPLACE: what INSERT would do without the UNIQUE constraint's error
InsertReplacingTask(tid, meta) ==
    /\ tasks' = (tasks \ RowsOf(tid)) \cup {NewRow(tid, meta)}
    /\ nextRowId' = nextRowId + 1
    /\ raised' = "none"
    /\ dbLocked' = dbLocked

\* INSERT INTO tasks ...; task_id is UNIQUE NOT NULL.  A duplicate raises
\* sqlite3.IntegrityError out of log_task before commit() and close(): the
\* connection is left open inside its transaction and keeps the write lock
\* until it is garbage-collected.
InsertTask(tid, meta) ==
    IF HasRow(tid)
    THEN /\ raised' = "IntegrityError"
         /\ dbLocked' = TRUE
         /\ UNCHANGED <<tasks, nextRowId>>
    ELSE /\ tasks' = tasks \cup {NewRow(tid, meta)}
         /\ nextRowId' = nextRowId + 1
         /\ raised' = "none"
         /\ dbLocked' = dbLocked

\* UPDATE tasks SET status = ?, started_at = CURRENT_TIMESTAMP WHERE task_id = ?
MarkStarted(tid) ==
    {IF r.task_id = tid
     THEN [r EXCEPT !.status = "started", !.started_at = now]
     ELSE r : r \in tasks}

\* UPDATE tasks SET status = ?, completed_at = CURRENT_TIMESTAMP WHERE task_id = ?
\* then UPDATE tasks SET duration = completed_at - started_at
\*      WHERE task_id = ? AND started_at IS NOT NULL AND completed_at IS NOT NULL
\* (the REAL that SQLite computes through julianday() lies within 0.0001 s of
\* the difference of the two timestamps; the model keeps whole seconds)
MarkTerminal(tid, status) ==
    {IF r.task_id = tid
     THEN [r EXCEPT !.status = status, !.completed_at = now,
                    !.duration = IF r.started_at # NoTime
                                 THEN now - r.started_at ELSE r.duration]
     ELSE r : r \in tasks}

\* UPDATE tasks SET result_path = ?, status = 'completed' WHERE task_id = ?
SetResult(tid, path) ==
    {IF r.task_id = tid
     THEN [r EXCEPT !.status = "completed", !.result_path = path]
     ELSE r : r \in tasks}

\* TaskMonitor.log_task(task_id, task_type, status, user, parameters).
\* self.task_history is appended to first, whatever happens next; no method of
\* TaskMonitor reads it, so the model keeps the number of appends and the
\* newest entry.
LogTask(tid, meta, status) ==
    /\ task_history.count < MaxHistory
    /\ task_history' = [count |-> task_history.count + 1, last |-> <<tid, status>>]
    /\ IF dbLocked
       THEN \* cursor.execute raises "database is locked" after the busy timeout
            /\ raised' = "OperationalError"
            /\ UNCHANGED <<tasks, nextRowId, active_tasks, dbLocked>>
       ELSE CASE status = "created" ->
                   /\ InsertTask(tid, meta)
                   /\ UNCHANGED active_tasks
              [] status = "started" ->
                   /\ tasks' = MarkStarted(tid)
                   /\ active_tasks' = active_tasks \cup {tid}
                   /\ raised' = "none"
                   /\ UNCHANGED <<nextRowId, dbLocked>>
              [] OTHER ->
                   /\ tasks' = MarkTerminal(tid, status)
                   /\ active_tasks' = active_tasks \ {tid}
                   /\ raised' = "none"
                   /\ UNCHANGED <<nextRowId, dbLocked>>
    /\ UNCHANGED <<pipeVars, now, monVars, dispVars, histVars>>

\* TaskMonitor.update_task_result(task_id, result_path, error_message).
\* With an error message the UPDATE is left uncommitted while log_error opens a
\* second connection and INSERTs into `errors`: the second connection cannot
\* get the write lock the first one holds, raises "database is locked" after
\* the busy timeout, and the exception leaves update_task_result before
\* commit(): the UPDATE is rolled back when the first connection is collected.
UpdateTaskResult(tid, path, msg) ==
    /\ IF dbLocked
       THEN /\ raised' = "OperationalError"
            /\ UNCHANGED <<tasks, dbLocked>>
       ELSE IF msg # NULL
            THEN /\ raised' = "OperationalError"
                 /\ dbLocked' = TRUE
                 /\ UNCHANGED tasks
            ELSE /\ tasks' = SetResult(tid, path)
                 /\ raised' = "none"
                 /\ UNCHANGED dbLocked
    /\ UNCHANGED <<pipeVars, now, nextRowId, active_tasks, task_history,
                   monVars, dispVars, histVars>>

\* The leaked connection of a call that raised is finalised: its transaction
\* is rolled back and the write lock released.
CollectGarbage ==
    /\ dbLocked
    /\ dbLocked' = FALSE
    /\ UNCHANGED <<pipeVars, now, tasks, nextRowId, active_tasks, task_history,
                   raised, monVars, dispVars, histVars>>

\* One second passes.
Tick ==
    /\ now < MaxTime
    /\ now' = now + 1
    /\ UNCHANGED <<pipeVars, storeVars, monVars, dispVars, histVars>>

\* seconds explored when callers run without delay
MaxPollTime == 3

\* a caller between two statements of execute_task, or in a time.sleep(1)
\* that is over, takes its step before the clock moves on
CallersPrompt ==
    \A c \in DOMAIN callerPc :
       \/ callerPc[c] = "idle"
       \/ callerPc[c] = "sleep" /\ now < callerWake[c]

\* One second passes while every caller is asleep or outside execute_task.
PromptTick ==
    /\ now < MaxPollTime
    /\ CallersPrompt
    /\ now' = now + 1
    /\ UNCHANGED <<pipeVars, storeVars, monVars, dispVars, histVars>>

(***************************************************************************)
(* TaskMonitor: metric samples, thresholds, alerts and retention.          *)
(***************************************************************************)
CpuThreshold == 90
MemoryThreshold == 85
DiskThreshold == 90
QueueThreshold == 50
AlertsMaxLen == 100

\* self.task_queue of TaskMonitor: created empty in __init__ and never put to
\* by any method of the repository, so qsize() is 0 whenever it is read
MonitorQueueSize == 0

Min(a, b) == IF a < b THEN a ELSE b

\* what psutil reports in one probe: a value at the threshold and a value above
\* it for each of cpu, memory and disk
Readings ==
    [cpu : {90, 95}, memory : {85, 86}, disk : {90, 91},
     network_sent_mb : {3}, network_recv_mb : {4}]

\* a reading with every value exactly at its threshold, and the same reading
\* with the CPU at 95
AtThresholds == [cpu |-> 90, memory |-> 85, disk |-> 90,
                 network_sent_mb |-> 3, network_recv_mb |-> 4]
CpuHot == [AtThresholds EXCEPT !.cpu = 95]

\* self.metrics before the first sample: an empty dict, for which
\* metrics.get(key, 0) is 0
NoMetrics == [last_collection |-> NoTime, cpu |-> 0, memory |-> 0, disk |-> 0,
              network_sent_mb |-> 0, network_recv_mb |-> 0]

Users == {"alice"}

\* a threshold that also fires for a value exactly at it
ReachesOrExceeds(value, threshold) == value >= threshold

\* check_thresholds: value > thresholds[key]
Exceeds(value, threshold) == value > threshold

BreachIf(cond, type, level, value) ==
    IF cond THEN <<[type |-> type, level |-> level, value |-> value]>> ELSE <<>>

\* check_thresholds, lines 211-237: the create_alert calls it makes, in order
Breaches(m) ==
    BreachIf(Exceeds(m.cpu, CpuThreshold), "high_cpu_usage", "warning", m.cpu)
    \o BreachIf(Exceeds(m.memory, MemoryThreshold), "high_memory_usage", "warning", m.memory)
    \o BreachIf(Exceeds(m.disk, DiskThreshold), "high_disk_usage", "critical", m.disk)
    \o BreachIf(Exceeds(MonitorQueueSize, QueueThreshold), "large_queue", "warning",
                MonitorQueueSize)

\* INSERT INTO alerts (alert_type, alert_level, message) VALUES (?, ?, ?)
AlertRow(b, id) ==
    [id |-> id, timestamp |-> now, alert_type |-> b.type, alert_level |-> b.level,
     message |-> <<b.type, b.value>>, acknowledged |-> FALSE,
     acknowledged_by |-> NULL, acknowledged_at |-> NoTime]

\* a create_alert that stays silent while an alert of the same type is open
NewAlertRowsDeduplicated(B) ==
    {AlertRow(B[i], nextAlertId + i - 1) : i \in
        {k \in 1..Len(B) : ~\E a \in alerts : a.alert_type = B[k].type /\ ~a.acknowledged}}

\* create_alert, once per breach: every call inserts its own row
NewAlertRows(B) == {AlertRow(B[i], nextAlertId + i - 1) : i \in 1..Len(B)}

\* check_thresholds raises when a create_alert it calls cannot write: the
\* INSERT of the first breach fails on a locked database
ThresholdsRaise == Len(Breaches(metrics)) > 0 /\ dbLocked

\* check_thresholds on the cached reading.  create_alert appends to
\* self.alerts before it opens the database, so a failing INSERT leaves the
\* first alert in memory only and ends check_thresholds.
EvaluateThresholds ==
    LET B == Breaches(metrics)
    IN /\ nextAlertId + Len(B) - 1 <= MaxAlerts
       /\ IF ThresholdsRaise
          THEN /\ memAlerts' = Min(memAlerts + 1, AlertsMaxLen)
               /\ UNCHANGED <<alerts, nextAlertId>>
          ELSE /\ alerts' = alerts \cup NewAlertRows(B)
               /\ nextAlertId' = nextAlertId + Len(B)
               /\ memAlerts' = Min(memAlerts + Len(B), AlertsMaxLen)

\* TaskMonitor.check_thresholds() called directly
CheckThresholds ==
    /\ EvaluateThresholds
    /\ raised' = IF ThresholdsRaise THEN "OperationalError" ELSE "none"
    /\ UNCHANGED <<pipeVars, now, tasks, nextRowId, active_tasks, task_history, dbLocked,
                   system_metrics, nextMetricId, metrics,
                   monPc, monWake, monLog, cleanPc, cleanWake, cleanLog,
                   dispVars, histVars>>

\* INSERT INTO system_metrics (...) VALUES (...)
MetricRow(reading) ==
    [id |-> nextMetricId, timestamp |-> now,
     cpu_percent |-> reading.cpu, memory_percent |-> reading.memory,
     disk_usage_percent |-> reading.disk,
     network_sent_mb |-> reading.network_sent_mb,
     network_recv_mb |-> reading.network_recv_mb,
     active_tasks |-> Cardinality(active_tasks), queue_size |-> MonitorQueueSize]

\* self.metrics[...] = ..., lines 189-194
CacheOf(reading) ==
    [last_collection |-> now, cpu |-> reading.cpu, memory |-> reading.memory,
     disk |-> reading.disk, network_sent_mb |-> reading.network_sent_mb,
     network_recv_mb |-> reading.network_recv_mb]

\* a sampling loop that ends when a sampling step fails
SamplingFailureEndsLoop == "dead"

\* _system_monitor_loop after a failed sampling step: collect_system_metrics
\* catches the exception and logs it, the loop goes to its time.sleep
AfterSamplingFailure == "sleep"

\* _system_monitor_loop, collect_system_metrics lines 149-194: probe the OS,
\* INSERT the sample and commit, refresh the cache
MonitorCollect(reading, probeRaises) ==
    /\ monPc = "collect"
    /\ nextMetricId <= MaxSamples
    /\ IF probeRaises \/ dbLocked
       THEN /\ monLog' = IF probeRaises THEN "probe failed" ELSE "metrics write failed"
            /\ monPc' = AfterSamplingFailure
            /\ monWake' = now + 1
            /\ UNCHANGED <<system_metrics, nextMetricId, metrics>>
       ELSE /\ system_metrics' = system_metrics \cup {MetricRow(reading)}
            /\ nextMetricId' = nextMetricId + 1
            /\ metrics' = CacheOf(reading)
            /\ monLog' = "none"
            /\ monPc' = "check"
            /\ UNCHANGED monWake
    /\ UNCHANGED <<pipeVars, now, storeVars, alerts, nextAlertId, memAlerts,
                   cleanPc, cleanWake, cleanLog, dispVars, histVars>>

\* collect_system_metrics lines 197-200: check_thresholds on the new reading,
\* then the loop's time.sleep
MonitorCheck ==
    /\ monPc = "check"
    /\ EvaluateThresholds
    /\ monLog' = IF ThresholdsRaise THEN "alert write failed" ELSE "none"
    /\ monPc' = IF ThresholdsRaise THEN AfterSamplingFailure ELSE "sleep"
    /\ monWake' = now + 1
    /\ UNCHANGED <<pipeVars, now, storeVars, system_metrics, nextMetricId, metrics,
                   cleanPc, cleanWake, cleanLog, dispVars, histVars>>

\* the monitor thread's time.sleep returns, at a later time
MonitorWake ==
    /\ monPc = "sleep"
    /\ now >= monWake
    /\ monPc' = "collect"
    /\ monWake' = 0
    /\ UNCHANGED <<pipeVars, now, storeVars, alerts, nextAlertId, memAlerts, system_metrics,
                   nextMetricId, metrics, monLog, cleanPc, cleanWake, cleanLog,
                   dispVars, histVars>>

\* an UPDATE of alerts without its WHERE clause
AlertSelectedAlways(a, id) == TRUE

\* acknowledge_alert: WHERE id = ?
AlertSelected(a, id) == a.id = id

\* TaskMonitor.acknowledge_alert(alert_id, username):
\* UPDATE alerts SET acknowledged = TRUE, acknowledged_by = ?,
\*        acknowledged_at = CURRENT_TIMESTAMP WHERE id = ?
AcknowledgeAlert(id, user) ==
    /\ IF dbLocked
       THEN /\ raised' = "OperationalError"
            /\ UNCHANGED alerts
       ELSE /\ alerts' = {IF AlertSelected(a, id)
                          THEN [a EXCEPT !.acknowledged = TRUE,
                                         !.acknowledged_by = user,
                                         !.acknowledged_at = now]
                          ELSE a : a \in alerts}
            /\ raised' = "none"
    /\ UNCHANGED <<pipeVars, now, tasks, nextRowId, active_tasks, task_history, dbLocked,
                   nextAlertId, memAlerts, system_metrics, nextMetricId, metrics,
                   monPc, monWake, monLog, cleanPc, cleanWake, cleanLog,
                   dispVars, histVars>>

\* datetime('now', '-N days')
Cutoff(days) == now - days * DayLength

\* a sweep that prunes every alert past the horizon, acknowledged or not
AlertPrunedByAgeOnly(a, days) == a.timestamp < Cutoff(days)

\* DELETE FROM alerts WHERE timestamp < datetime('now', ?) AND acknowledged = TRUE
AlertPruned(a, days) == a.timestamp < Cutoff(days) /\ a.acknowledged

\* DELETE FROM tasks WHERE created_at < datetime('now', ?)
TaskPruned(r, days) == r.created_at < Cutoff(days)

\* a sweep that prunes samples by days_to_keep as well
MetricPrunedByDaysToKeep(m, days) == m.timestamp < Cutoff(days)

\* DELETE FROM system_metrics WHERE timestamp < datetime('now', '-7 days')
MetricPruned(m, days) == m.timestamp < Cutoff(MetricsDays)

\* cleanup_old_data(days_to_keep), lines 562-602: one transaction that deletes
\* old job rows, old samples and old acknowledged alerts.  (The table `errors`
\* it also prunes is not part of this model.)  On a locked database the first
\* DELETE raises and nothing is deleted.
SweepOldData(days) ==
    IF dbLocked
    THEN UNCHANGED <<tasks, system_metrics, alerts>>
    ELSE /\ tasks' = {r \in tasks : ~TaskPruned(r, days)}
         /\ system_metrics' = {m \in system_metrics : ~MetricPruned(m, days)}
         /\ alerts' = {a \in alerts : ~AlertPruned(a, days)}

\* TaskMonitor.cleanup_old_data(days_to_keep) called directly
CleanupOldData(days) ==
    /\ SweepOldData(days)
    /\ raised' = IF dbLocked THEN "OperationalError" ELSE "none"
    /\ UNCHANGED <<pipeVars, now, nextRowId, active_tasks, task_history, dbLocked,
                   nextAlertId, memAlerts, nextMetricId, metrics,
                   monPc, monWake, monLog, cleanPc, cleanWake, cleanLog,
                   dispVars, histVars>>

\* a retention loop that ends when a sweep fails
CleanupFailureEndsLoop == "dead"

\* _cleanup_loop after a failed sweep: the except clause logs the exception and
\* goes to its time.sleep
AfterCleanupFailure == "sleep"

\* _cleanup_loop: cleanup_old_data() with the default days_to_keep, then sleep
CleanupStep ==
    /\ cleanPc = "cleanup"
    /\ SweepOldData(DefaultDaysToKeep)
    /\ cleanLog' = IF dbLocked THEN "cleanup failed" ELSE "none"
    /\ cleanPc' = IF dbLocked THEN AfterCleanupFailure ELSE "sleep"
    /\ cleanWake' = now + 1
    /\ UNCHANGED <<pipeVars, now, nextRowId, active_tasks, task_history, dbLocked, raised,
                   nextAlertId, memAlerts, nextMetricId, metrics,
                   monPc, monWake, monLog, dispVars, histVars>>

\* the cleanup thread's time.sleep returns, at a later time
CleanupWake ==
    /\ cleanPc = "sleep"
    /\ now >= cleanWake
    /\ cleanPc' = "cleanup"
    /\ cleanWake' = 0
    /\ UNCHANGED <<pipeVars, now, storeVars, alerts, nextAlertId, memAlerts, system_metrics,
                   nextMetricId, metrics, monPc, monWake, monLog, cleanLog,
                   dispVars, histVars>>

(***************************************************************************)
(* ColabManager.                                                           *)
(***************************************************************************)
Callers == {"c1", "c2"}

KnownActions == {"generate_images", "upscale_image", "super_resolution"}

\* the task_data dictionaries callers pass to execute_task: one with an action
\* _execute_colab_task knows, one with an action it does not know
TaskDatas == {[action |-> "generate_images", arg |-> "prompt"],
              [action |-> "render_video", arg |-> "clip"]}

\* hash(json.dumps(task_data)): a fixed function for the life of the process
PayloadHash(td) ==
    CASE td.action = "generate_images" -> 20017
      [] td.action = "upscale_image" -> 31337
      [] td.action = "super_resolution" -> IF td.arg = "asset" THEN 5150 ELSE 5151
      [] OTHER -> 4242

\* f"task_{int(time.time())}_{hash(json.dumps(task_data)) % 10000:04d}"
NewTaskId(td) == TaskIdOf(now, PayloadHash(td) % HashModulus)

NoTaskId == TaskIdOf(0, 0)

NoOutcome == [success |-> FALSE, result |-> NULL, error |-> NULL,
              completed_at |-> NoTime, job |-> 0]

\* {'success': False, 'error': f'Task timeout after {timeout} seconds'}
TimeoutOutcome == [NoOutcome EXCEPT !.error = "Task timeout"]

\* {'success': False, 'error': 'Not connected to Colab'}
NotConnectedOutcome == [NoOutcome EXCEPT !.error = "Not connected to Colab"]

\* self.results.pop(task_id) on a key that is gone
KeyErrorOutcome == [NoOutcome EXCEPT !.error = "KeyError raised"]

\* _colab_generate_images, _colab_upscale_image, _colab_super_resolution:
\* what the stub returns for a known action
StubResult(td) ==
    CASE td.action = "generate_images" -> "images of prompt"
      [] td.action = "upscale_image" -> "upscaled image"
      [] OTHER -> "video_url"

\* _execute_colab_task: the stub's return value, or the ValueError it raises
\* for an action it does not know (str(e) is the value)
Invoke(td) ==
    IF td.action \in KnownActions
    THEN [raises |-> FALSE, value |-> StubResult(td)]
    ELSE [raises |-> TRUE, value |-> "Unknown action: render_video"]

\* a queue that hands out its newest item first
DequeueNewest(q) == [item |-> q[Len(q)], rest |-> SubSeq(q, 1, Len(q) - 1)]

\* Queue.get(): the item at the head of the queue, and the queue without it
Dequeue(q) == [item |-> Head(q), rest |-> Tail(q)]

\* self.results[task_id] = {...}
PutResult(res, tid, outcome) ==
    [k \in DOMAIN res \cup {tid} |-> IF k = tid THEN outcome ELSE res[k]]

\* self.results.pop(task_id)
PopResult(res, tid) == [k \in DOMAIN res \ {tid} |-> res[k]]

\* execute_task returns: its local variables are gone
Return(c) ==
    /\ callerTask' = [callerTask EXCEPT ![c] = NoTaskId]
    /\ callerJob' = [callerJob EXCEPT ![c] = 0]
    /\ callerStart' = [callerStart EXCEPT ![c] = 0]
    /\ callerWake' = [callerWake EXCEPT ![c] = 0]

\* an execute_task that holds every other caller off while one call waits
MayEnterWhenNoneWaits(c) == \A d \in Callers : callerPc[d] = "idle"

\* execute_task takes no lock: a thread may call it whenever it is not inside
\* a call of its own
MayEnter(c) == callerPc[c] = "idle"

\* an execute_task that enqueues before it looks at the connection
QueueKeepingRefused(q, item) == Append(q, item)

\* execute_task, lines 122-125: the refused call returns before the job is
\* built; the queue is what it was
QueueOnRefusal(q, item) == q

\* execute_task, lines 122-131: when not connected call connect_to_colab once
\* (`connects` is what its try block came to: True, or the except clause's
\* False) and return the error if it failed; build the task id, enqueue.
Submit(c, td, connects) ==
    /\ MayEnter(c)
    /\ nextJob < MaxJobs
    /\ connectAttempts' = IF is_connected THEN 0 ELSE 1
    /\ LET tid == NewTaskId(td)
           job == nextJob + 1
           item == [task_id |-> tid, data |-> td, job |-> job]
       IN IF ~is_connected /\ ~connects
          THEN /\ is_connected' = FALSE
               /\ task_queue' = QueueOnRefusal(task_queue, item)
               /\ callerRet' = [callerRet EXCEPT ![c] = NotConnectedOutcome]
               /\ UNCHANGED <<callerPc, callerTask, callerJob, nextJob, enqueued>>
          ELSE /\ is_connected' = TRUE
               /\ task_queue' = Append(task_queue, item)
               /\ callerTask' = [callerTask EXCEPT ![c] = tid]
               /\ callerJob' = [callerJob EXCEPT ![c] = job]
               /\ nextJob' = job
               /\ enqueued' = Append(enqueued, job)
               /\ callerPc' = [callerPc EXCEPT ![c] = "start"]
               /\ callerRet' = [callerRet EXCEPT ![c] = NoOutcome]
    /\ UNCHANGED <<now, storeVars, monVars, results, procPc, procTask, callerStart, callerWake,
                   startedJobs, finishedJobs, timedOut>>

\* execute_task, line 135: start_time = time.time()
StartWait(c) ==
    /\ callerPc[c] = "start"
    /\ callerStart' = [callerStart EXCEPT ![c] = now]
    /\ callerPc' = [callerPc EXCEPT ![c] = "poll"]
    /\ UNCHANGED <<pipeVars, now, storeVars, monVars, is_connected, task_queue, results, procPc, procTask,
                   callerTask, callerJob, callerWake, callerRet, histVars>>

\* execute_task, line 137: while task_id not in self.results
Poll(c) ==
    /\ callerPc[c] = "poll"
    /\ callerPc' = [callerPc EXCEPT ![c] =
            IF callerTask[c] \in DOMAIN results THEN "pop" ELSE "deadline"]
    /\ UNCHANGED <<pipeVars, now, storeVars, monVars, is_connected, task_queue, results, procPc, procTask,
                   callerTask, callerJob, callerStart, callerWake, callerRet, histVars>>

\* a timeout that also withdrew the caller's job from the queue
QueueWithoutCallersJob(c) == SelectSeq(task_queue, LAMBDA t : t.job # callerJob[c])

\* execute_task, lines 138-142: the timeout branch returns and leaves the
\* queue as it is
QueueAfterTimeout(c) == task_queue

\* a deadline test that lets one more second pass
DeadlinePassedLate(c) == now - callerStart[c] > TimeoutSeconds + 1

\* execute_task, line 138: time.time() - start_time > timeout
DeadlinePassed(c) == now - callerStart[c] > TimeoutSeconds

\* execute_task, lines 138-142: the deadline has passed, return the timeout
TimeOut(c) ==
    /\ callerPc[c] = "deadline"
    /\ DeadlinePassed(c)
    /\ task_queue' = QueueAfterTimeout(c)
    /\ callerRet' = [callerRet EXCEPT ![c] = TimeoutOutcome]
    /\ callerPc' = [callerPc EXCEPT ![c] = "idle"]
    /\ timedOut' = timedOut \cup {callerJob[c]}
    /\ Return(c)
    /\ UNCHANGED <<pipeVars, now, storeVars, monVars, is_connected, results, procPc, procTask,
                   nextJob, enqueued, startedJobs, finishedJobs, connectAttempts>>

\* execute_task, lines 138 and 143: the deadline has not passed, time.sleep(1)
Sleep(c) ==
    /\ callerPc[c] = "deadline"
    /\ ~DeadlinePassed(c)
    /\ callerWake' = [callerWake EXCEPT ![c] = now + 1]
    /\ callerPc' = [callerPc EXCEPT ![c] = "sleep"]
    /\ UNCHANGED <<pipeVars, now, storeVars, monVars, is_connected, task_queue, results, procPc, procTask,
                   callerTask, callerJob, callerStart, callerRet, histVars>>

\* time.sleep(1) returns, no sooner than one second later
Wake(c) ==
    /\ callerPc[c] = "sleep"
    /\ now >= callerWake[c]
    /\ callerPc' = [callerPc EXCEPT ![c] = "poll"]
    /\ UNCHANGED <<pipeVars, now, storeVars, monVars, is_connected, task_queue, results, procPc, procTask,
                   callerTask, callerJob, callerStart, callerWake, callerRet, histVars>>

\* execute_task, lines 145-146: result = self.results.pop(task_id); return
Pop(c) ==
    /\ callerPc[c] = "pop"
    /\ IF callerTask[c] \in DOMAIN results
       THEN /\ callerRet' = [callerRet EXCEPT ![c] = results[callerTask[c]]]
            /\ results' = PopResult(results, callerTask[c])
       ELSE /\ callerRet' = [callerRet EXCEPT ![c] = KeyErrorOutcome]
            /\ UNCHANGED results
    /\ callerPc' = [callerPc EXCEPT ![c] = "idle"]
    /\ Return(c)
    /\ UNCHANGED <<pipeVars, now, storeVars, monVars, is_connected, task_queue, procPc, procTask, histVars>>

\* a processor that takes the next job while one is being executed
ProcessorAlwaysFree == TRUE

\* the single processor thread is at self.task_queue.get() only between two
\* invocations
ProcessorFree == procPc = "get"

\* processor, lines 71-75: task_data = self.task_queue.get(), then the call of
\* _execute_colab_task begins
ProcGet ==
    /\ ProcessorFree
    /\ task_queue # <<>>
    /\ procTask' = Dequeue(task_queue).item
    /\ task_queue' = Dequeue(task_queue).rest
    /\ procPc' = "exec"
    /\ startedJobs' = Append(startedJobs, Dequeue(task_queue).item.job)
    /\ UNCHANGED <<pipeVars, now, storeVars, monVars, is_connected, results, callerPc, callerTask,
                   callerJob, callerStart, callerWake, callerRet,
                   nextJob, enqueued, finishedJobs, timedOut, connectAttempts>>

\* an exception that leaves the processor's loop ends the thread
ExceptionEndsThread == "dead"

\* what the processor does with an exception of _execute_colab_task: the
\* except clause catches it and the loop goes on
AfterException == "get"

\* processor, lines 75-88: _execute_colab_task returns or raises, the outcome
\* is written to self.results, task_done()
ProcFinish ==
    /\ procPc = "exec"
    /\ LET r == Invoke(procTask.data)
           outcome == IF r.raises
                      THEN [success |-> FALSE, result |-> NULL, error |-> r.value,
                            completed_at |-> now, job |-> procTask.job]
                      ELSE [success |-> TRUE, result |-> r.value, error |-> NULL,
                            completed_at |-> now, job |-> procTask.job]
       IN /\ results' = PutResult(results, procTask.task_id, outcome)
          /\ procPc' = IF r.raises THEN AfterException ELSE "get"
    /\ finishedJobs' = Append(finishedJobs, procTask.job)
    /\ UNCHANGED <<pipeVars, now, storeVars, monVars, is_connected, task_queue, procTask, callerPc,
                   callerTask, callerJob, callerStart, callerWake, callerRet,
                   nextJob, enqueued, startedJobs, timedOut, connectAttempts>>

(***************************************************************************)
(* VideoPipeline.  Its threads are the callers of ColabManager.execute_task.*)
(***************************************************************************)
\* files on disk that no stage wrote: uploads and audio
UploadedFiles == {"asset", "music", "rain"}

\* paths callers pass to the stages
InputPaths == {"asset", "missing"}

\* the path the latest extend_video call returned, passed on by the caller
PreviousOutput == "previous output"

\* os.path.exists(path)
Exists(path) ==
    \/ path \in UploadedFiles
    \/ path = PreviousOutput /\ lastExtended.duration # NoTime

\* the duration ffprobe reports for an existing file; 0 when ffprobe fails or
\* reports none
Durations == {0, 5, 12}

\* target_duration values callers pass to extend_video
Targets == {12}

\* durations on both sides of the targets, dividing them and not
ExtendDurations == {0, 4, 5, 12, 13}

\* target_duration values of the calls whose arithmetic is explored
ExtendTargets == {12, 13}

\* durations of the clips create_seamless_loop is given
LoopDurations == {5, 7}

\* total_duration_minutes of create_seamless_loop
DefaultLoopMinutes == 180

\* audio_tracks values callers pass to create_video_from_image
TrackLists == {<<>>,
               <<[path |-> "music", volume |-> 50]>>,
               <<[path |-> "music", volume |-> 50], [path |-> "rain", volume |-> 100]>>}

NoCall == [stage |-> "none", input |-> NULL, second |-> NULL, tracks |-> <<>>,
           duration |-> 0, target |-> 0, minutes |-> 0, call |-> 0]

\* the calls of the stages that go through ColabManager
DispatchedCalls ==
    {[NoCall EXCEPT !.stage = "generate_images", !.input = "prompt"]}
    \cup {[NoCall EXCEPT !.stage = s, !.input = p] :
             s \in {"upscale_selected", "super_resolution"}, p \in InputPaths}

\* the calls of the stages that run the encoder locally
AssemblyCalls ==
    {[NoCall EXCEPT !.stage = "create_video_from_image", !.input = p, !.tracks = t] :
        p \in InputPaths, t \in TrackLists}
    \cup {[NoCall EXCEPT !.stage = "extend_video", !.input = p, !.duration = d,
                         !.target = t] :
             p \in InputPaths, d \in Durations, t \in Targets}
    \cup {[NoCall EXCEPT !.stage = "create_seamless_loop", !.input = p, !.duration = d,
                         !.minutes = DefaultLoopMinutes] :
             p \in InputPaths, d \in Durations}
    \cup {[NoCall EXCEPT !.stage = "finalize_video", !.input = p, !.second = q] :
             p \in InputPaths, q \in InputPaths}

\* extend_video on an upload or on what the call before returned, and
\* create_seamless_loop
ExtendCalls ==
    {[NoCall EXCEPT !.stage = "extend_video", !.input = "asset", !.duration = d,
                    !.target = t] : d \in ExtendDurations, t \in ExtendTargets}
    \cup {[NoCall EXCEPT !.stage = "extend_video", !.input = PreviousOutput,
                         !.target = t] : t \in ExtendTargets}
    \cup {[NoCall EXCEPT !.stage = "create_seamless_loop", !.input = "asset",
                         !.duration = d, !.minutes = DefaultLoopMinutes] :
             d \in LoopDurations}

NoPath == [dir |-> NULL, prefix |-> NULL, minutes |-> 0, stamp |-> NoTime]

\* a path a caller passed in, handed back as the stage's result
InputPath(p) ==
    IF p = PreviousOutput THEN lastExtended.path
    ELSE [NoPath EXCEPT !.dir = "input", !.prefix = p]

\* os.path.join(dir, f"{prefix}_{datetime.now().strftime('%Y%m%d_%H%M%S')}..."):
\* the name carries the clock's reading in whole seconds and nothing else
StampedPath(dir, prefix, minutes) ==
    [dir |-> dir, prefix |-> prefix, minutes |-> minutes, stamp |-> now]

\* the output path each stage builds
OutputPath(call) ==
    CASE call.stage = "upscale_selected" -> StampedPath("outputs/selected", "upscaled", 0)
      [] call.stage = "create_video_from_image" ->
            StampedPath("outputs/videos/short", "video", 0)
      [] call.stage = "extend_video" -> StampedPath("outputs/videos/long", "extended", 0)
      [] call.stage = "super_resolution" -> StampedPath("outputs/videos/4k", "4k", 0)
      [] call.stage = "create_seamless_loop" ->
            StampedPath("outputs/videos/final", "loop", call.minutes)
      [] call.stage = "finalize_video" -> StampedPath("publish", "final_video", 0)
      [] OTHER -> NoPath

NoRet == [kind |-> "none", path |-> NoPath, message |-> <<NULL, NULL>>, runs |-> <<>>,
          audio |-> FALSE, wrote |-> FALSE, repeats |-> 0, entries |-> 0,
          concat |-> 0, duration |-> NoTime]

\* return value
Returned(path) == [NoRet EXCEPT !.kind = "returned", !.path = path]

\* raise kind(f"{prefix}: {detail}")
Raised(kind, prefix, detail) == [NoRet EXCEPT !.kind = kind, !.message = <<prefix, detail>>]

\* utils.get_video_info(path).get('duration', 0): a missing file has none, a
\* file extend_video wrote has the duration it was trimmed to
DurationRead(call) ==
    IF ~Exists(call.input) THEN 0
    ELSE IF call.input = PreviousOutput THEN lastExtended.duration
    ELSE call.duration

\* an extend_video that leaves the clip alone only when it is longer than the
\* target
LongerThan(current, target) == current > target

\* extend_video, line 396: current_duration >= target_duration
LongEnough(current, target) == current >= target

\* a repeat count without the extra round
RepeatsWithoutExtra(target, current) == target \div current

\* extend_video, line 401, and create_seamless_loop, line 505:
\* int(target / current) + 1
Repeats(target, current) == (target \div current) + 1

\* create_seamless_loop, line 497: total_seconds = total_duration_minutes * 60
TotalSeconds(call) == call.minutes * 60

\* the lines `file '...'` a stage writes to its concatenation list:
\* extend_video one per repeat (lines 407-409), create_seamless_loop one per
\* repeat and one more between two repeats (lines 519-526)
ListEntries(call) ==
    IF call.stage = "extend_video" THEN Repeats(call.target, call.duration)
    ELSE 2 * Repeats(TotalSeconds(call), call.duration) - 1

\* ffmpeg -t target: the output ends at the target, or where the input ends
TrimmedDuration(concat, target) == Min(concat, target)

\* The statements of a local stage before its with block: how the call ends
\* there, or NoRet when it goes on to create its temporary directory.
EntryResult(call) ==
    CASE call.stage = "create_video_from_image" ->
            IF ~Exists(call.input)
            THEN Raised("FileNotFoundError", "Image not found", call.input)
            ELSE NoRet
      [] call.stage = "extend_video" ->
            IF ~Exists(call.input)
            THEN Raised("FileNotFoundError", "Video not found", call.input)
            ELSE IF LongEnough(DurationRead(call), call.target)
                 THEN [Returned(InputPath(call.input))
                          EXCEPT !.duration = DurationRead(call)]
            ELSE IF DurationRead(call) = 0
                 THEN Raised("ZeroDivisionError", "float division by zero", NULL)
            ELSE NoRet
      [] call.stage = "create_seamless_loop" ->
            IF DurationRead(call) <= 0
            THEN Raised("ValueError", "Invalid video duration", NULL)
            ELSE NoRet
      [] call.stage = "finalize_video" ->
            IF ~Exists(call.input) \/ ~Exists(call.second)
            THEN Raised("FileNotFoundError", "Intro or main video not found", NULL)
            ELSE NoRet
      [] OTHER -> NoRet

\* names tempfile.mkdtemp can draw
DirNames == {"tmp1", "tmp2"}

\* tempfile.mkdtemp draws names until os.mkdir succeeds: the directory it
\* returns did not exist
FreshDirNames == DirNames \ tmpDirs

\* a with block that keeps the directory when its body raises
DirsKeptOnError(w, ret) ==
    IF ret.kind = "returned" THEN tmpDirs \ {stageDir[w]} ELSE tmpDirs

\* TemporaryDirectory.__exit__: the directory is removed however the body ended
DirsAfterExit(w, ret) == tmpDirs \ {stageDir[w]}

\* what the caller of extend_video holds after the call: the returned path and
\* the duration of the file at it
Handed(call, ret) ==
    IF call.stage = "extend_video" /\ ret.kind = "returned"
    THEN [path |-> ret.path, duration |-> ret.duration, target |-> call.target]
    ELSE lastExtended

\* A local stage is called: its entry checks, then tempfile.TemporaryDirectory().
AssembleBegin(w, call) ==
    /\ stagePc[w] = "idle"
    /\ callerPc[w] = "idle"
    /\ nextCall < MaxCalls
    /\ nextCall' = nextCall + 1
    /\ stageCall' = [stageCall EXCEPT ![w] = [call EXCEPT !.call = nextCall + 1,
                                                         !.duration = DurationRead(call)]]
    /\ IF EntryResult(call) # NoRet
       THEN /\ stageRet' = [stageRet EXCEPT ![w] = EntryResult(call)]
            /\ lastExtended' = Handed(call, EntryResult(call))
            /\ UNCHANGED <<stagePc, stageDir, tmpDirs>>
       ELSE /\ \E d \in FreshDirNames :
                  /\ stageDir' = [stageDir EXCEPT ![w] = d]
                  /\ tmpDirs' = tmpDirs \cup {d}
            /\ stagePc' = [stagePc EXCEPT ![w] = "assembling"]
            /\ stageRet' = [stageRet EXCEPT ![w] = NoRet]
            /\ UNCHANGED lastExtended
    /\ UNCHANGED <<now, storeVars, monVars, dispVars, histVars, written>>

\* the encoder invocations a stage call can make, numbered in order: frames,
\* one volume step per track, merge, mux for create_video_from_image; concat
\* and trim for extend_video; one for the other stages
EncoderRuns(call) ==
    CASE call.stage = "create_video_from_image" -> 1..(Len(call.tracks) + 3)
      [] call.stage = "extend_video" -> 1..2
      [] OTHER -> 1..1

\* subprocess.run(cmd, check=True): one encoder invocation and its exit status
Run(step, arg, ok) == [step |-> step, arg |-> arg, ok |-> ok, gain |-> <<0, 1>>]

\* volume = track.get('volume', 100) / 100.0, as a fraction
Gain(track) == <<track.volume, 100>>

\* the volume step of one track: ffmpeg -i path -af volume=... -ac 2
VolumeRun(track, ok) == [Run("volume", track.path, ok) EXCEPT !.gain = Gain(track)]

\* _mix_audio_tracks, lines 302-322: one volume step per track whose file
\* exists; `k` numbers the call's encoder invocations
RECURSIVE VolumeRuns(_, _, _)
VolumeRuns(tracks, exits, k) ==
    IF tracks = <<>> THEN <<>>
    ELSE IF Exists(Head(tracks).path)
         THEN <<VolumeRun(Head(tracks), exits[k])>>
              \o VolumeRuns(Tail(tracks), exits, k + 1)
         ELSE VolumeRuns(Tail(tracks), exits, k)

\* a mix that goes through the merge step whenever there is audio
MergeWheneverAudio(files) == Len(files) >= 1

\* _mix_audio_tracks, lines 330-332: one processed file is copied to
\* mixed_audio.wav, more are merged
MergeNeeded(files) == Len(files) > 1

\* _mix_audio_tracks: the encoder invocations it makes after the frames step
\* and whether the video it returns carries audio.  A failed volume step is
\* logged and its track left out (lines 318-322); a failed merge or mux step
\* is logged and the video without audio returned (lines 353-357, 374-379).
MixAudioTracks(tracks, exits) ==
    LET vol == VolumeRuns(tracks, exits, 2)
        files == SelectSeq(vol, LAMBDA r : r.ok)
        k == 2 + Len(vol)
        merge == Run("merge", "-ac 2", exits[k])
        muxAt == IF MergeNeeded(files) THEN k + 1 ELSE k
        mux == Run("mux", "-shortest", exits[muxAt])
    IN IF files = <<>> THEN [runs |-> vol, audio |-> FALSE]
       ELSE IF MergeNeeded(files) /\ ~merge.ok
            THEN [runs |-> vol \o <<merge>>, audio |-> FALSE]
       ELSE [runs |-> vol \o (IF MergeNeeded(files) THEN <<merge>> ELSE <<>>) \o <<mux>>,
             audio |-> mux.ok]

\* The body of a local stage's with block, given the exit status of each
\* encoder invocation: how the call ends and whether it wrote its output.
AssembleResult(call, exits) ==
    CASE call.stage = "create_video_from_image" ->
            LET frames == Run("frames", NULL, exits[1])
                mix == MixAudioTracks(call.tracks, exits)
            IN IF ~frames.ok
               THEN [Raised("Exception", "Video creation failed", "non-zero exit status")
                        EXCEPT !.runs = <<frames>>]
               ELSE [Returned(OutputPath(call)) EXCEPT !.runs = <<frames>> \o mix.runs,
                                                      !.audio = mix.audio,
                                                      !.wrote = TRUE]
      [] call.stage = "extend_video" ->
            LET concat == Run("concat", NULL, exits[1])
                trim == Run("trim", NULL, exits[2])
            IN IF ~concat.ok
               THEN [Raised("Exception", "Failed to extend video", "non-zero exit status")
                        EXCEPT !.runs = <<concat>>]
               ELSE IF ~trim.ok
               THEN [Raised("Exception", "Failed to extend video", "non-zero exit status")
                        EXCEPT !.runs = <<concat, trim>>]
               ELSE [Returned(OutputPath(call))
                        EXCEPT !.runs = <<concat, trim>>,
                               !.wrote = TRUE,
                               !.repeats = Repeats(call.target, call.duration),
                               !.entries = ListEntries(call),
                               !.concat = ListEntries(call) * call.duration,
                               !.duration = TrimmedDuration(ListEntries(call) * call.duration,
                                                            call.target)]
      [] call.stage = "create_seamless_loop" ->
            LET loop == Run("loop", NULL, exits[1])
            IN IF ~loop.ok
               THEN [Raised("Exception", "Failed to create seamless loop",
                            "non-zero exit status") EXCEPT !.runs = <<loop>>]
               ELSE [Returned(OutputPath(call))
                        EXCEPT !.runs = <<loop>>,
                               !.wrote = TRUE,
                               !.repeats = Repeats(TotalSeconds(call), call.duration),
                               !.entries = ListEntries(call)]
      [] OTHER ->
            LET final == Run("final", NULL, exits[1])
            IN IF ~final.ok
               THEN [Raised("Exception", "Failed to assemble final video",
                            "non-zero exit status") EXCEPT !.runs = <<final>>]
               ELSE [Returned(OutputPath(call)) EXCEPT !.runs = <<final>>, !.wrote = TRUE]

\* A local stage's with block runs to its end: the encoder invocations, each
\* with the exit status it happens to have, the output file, and the removal
\* of the temporary directory.
AssembleEnd(w) ==
    /\ stagePc[w] = "assembling"
    /\ \E exits \in [EncoderRuns(stageCall[w]) -> BOOLEAN] :
          LET ret == AssembleResult(stageCall[w], exits)
          IN /\ stageRet' = [stageRet EXCEPT ![w] = ret]
             /\ written' = IF ret.wrote THEN Append(written, ret.path) ELSE written
             /\ tmpDirs' = DirsAfterExit(w, ret)
             /\ lastExtended' = Handed(stageCall[w], ret)
    /\ stageDir' = [stageDir EXCEPT ![w] = NULL]
    /\ stagePc' = [stagePc EXCEPT ![w] = "idle"]
    /\ UNCHANGED <<now, storeVars, monVars, dispVars, histVars, stageCall, nextCall>>

\* colab_data of a dispatched stage
ColabData(call) ==
    CASE call.stage = "generate_images" -> [action |-> "generate_images", arg |-> call.input]
      [] call.stage = "upscale_selected" -> [action |-> "upscale_image", arg |-> call.input]
      [] OTHER -> [action |-> "super_resolution", arg |-> call.input]

\* which dispatched stages test os.path.exists before they dispatch:
\* upscale_selected does (line 175), generate_images has no input file,
\* super_resolution does not
ChecksInput(call) == call.stage = "upscale_selected"

\* A dispatched stage is called: its entry check, then execute_task up to the
\* point where the job is in the queue (or the call was refused).
StageDispatch(w, call, connects) ==
    /\ stagePc[w] = "idle"
    /\ nextCall < MaxCalls
    /\ nextCall' = nextCall + 1
    /\ stageCall' = [stageCall EXCEPT ![w] = [call EXCEPT !.call = nextCall + 1]]
    /\ IF ChecksInput(call) /\ ~Exists(call.input)
       THEN /\ MayEnter(w)
            /\ stageRet' = [stageRet EXCEPT ![w] =
                                Raised("FileNotFoundError", "Image not found", call.input)]
            /\ UNCHANGED <<now, storeVars, monVars, dispVars, histVars, stagePc>>
       ELSE /\ Submit(w, ColabData(call), connects)
            /\ stagePc' = [stagePc EXCEPT ![w] = "dispatched"]
            /\ stageRet' = [stageRet EXCEPT ![w] = NoRet]
    /\ UNCHANGED <<stageDir, tmpDirs, written, lastExtended>>

\* f"Colab generation failed: ...", f"Colab upscale failed: ...",
\* f"4K super resolution failed: ..."
FailurePrefix(call) ==
    CASE call.stage = "generate_images" -> "Colab generation failed"
      [] call.stage = "upscale_selected" -> "Colab upscale failed"
      [] OTHER -> "4K super resolution failed"

\* the else branch of `if result['success']`: one raise for every outcome
\* that is not a success
StageFailure(call, outcome) == Raised("Exception", FailurePrefix(call), outcome.error)

\* What a dispatched stage does with the outcome execute_task returned.  The
\* processor stores {'success', 'result', 'completed_at'}: generate_images
\* finds no 'images' key and returns an empty list, upscale_selected's
\* result['image'] raises KeyError, super_resolution returns the path it built
\* and writes nothing.
StageResult(call, outcome) ==
    IF outcome = KeyErrorOutcome THEN Raised("KeyError", "task_id", NULL)
    ELSE IF ~outcome.success THEN StageFailure(call, outcome)
    ELSE CASE call.stage = "generate_images" -> Returned(NoPath)
           [] call.stage = "upscale_selected" -> Raised("KeyError", "image", NULL)
           [] OTHER -> Returned(OutputPath(call))

\* execute_task has returned: the dispatched stage ends.
StageReturn(w) ==
    /\ stagePc[w] = "dispatched"
    /\ callerPc[w] = "idle"
    /\ stageRet' = [stageRet EXCEPT ![w] = StageResult(stageCall[w], callerRet[w])]
    /\ stagePc' = [stagePc EXCEPT ![w] = "idle"]
    /\ UNCHANGED <<now, storeVars, monVars, dispVars, histVars, stageCall, stageDir,
                   tmpDirs, written, nextCall, lastExtended>>

(***************************************************************************)
(* Specifications.                                                         *)
(***************************************************************************)
NoTask == [task_id |-> NoTaskId, data |-> [action |-> NULL, arg |-> NULL], job |-> 0]

Init ==
    /\ now = 0
    /\ tasks = {}
    /\ nextRowId = 1
    /\ active_tasks = {}
    /\ task_history = [count |-> 0, last |-> <<NoTaskId, "none">>]
    /\ dbLocked = FALSE
    /\ raised = "none"
    /\ alerts = {}
    /\ nextAlertId = 1
    /\ memAlerts = 0
    /\ system_metrics = {}
    /\ nextMetricId = 1
    /\ metrics = NoMetrics
    /\ monPc = "collect"
    /\ monWake = 0
    /\ monLog = "none"
    /\ cleanPc = "cleanup"
    /\ cleanWake = 0
    /\ cleanLog = "none"
    /\ is_connected = FALSE
    /\ task_queue = <<>>
    /\ results = <<>>
    /\ procPc = "get"
    /\ procTask = NoTask
    /\ callerPc = [c \in Callers |-> "idle"]
    /\ callerTask = [c \in Callers |-> NoTaskId]
    /\ callerJob = [c \in Callers |-> 0]
    /\ callerStart = [c \in Callers |-> 0]
    /\ callerWake = [c \in Callers |-> 0]
    /\ callerRet = [c \in Callers |-> NoOutcome]
    /\ nextJob = 0
    /\ enqueued = <<>>
    /\ startedJobs = <<>>
    /\ finishedJobs = <<>>
    /\ timedOut = {}
    /\ connectAttempts = 0
    /\ stagePc = [c \in Callers |-> "idle"]
    /\ stageCall = [c \in Callers |-> NoCall]
    /\ stageDir = [c \in Callers |-> NULL]
    /\ stageRet = [c \in Callers |-> NoRet]
    /\ tmpDirs = {}
    /\ written = <<>>
    /\ nextCall = 0
    /\ lastExtended = [path |-> NoPath, duration |-> NoTime, target |-> 0]

AnyMeta == CHOOSE meta \in Metas : TRUE

StoreNext ==
    \/ \E tid \in TaskIds, meta \in Metas : LogTask(tid, meta, "created")
    \/ \E tid \in TaskIds, status \in Statuses \ {"created"} : LogTask(tid, AnyMeta, status)
    \/ \E tid \in TaskIds, path \in ResultPaths, msg \in ErrorMessages :
          UpdateTaskResult(tid, path, msg)
    \/ CollectGarbage
    \/ Tick

\* days_to_keep values callers pass to cleanup_old_data
DaysToKeep == {0, 1}

\* ids callers pass to acknowledge_alert
AlertIds == 1..MaxAlerts

\* readings of every kind are sampled and evaluated
ThresholdNext ==
    \/ \E reading \in Readings : MonitorCollect(reading, FALSE)
    \/ MonitorCheck
    \/ MonitorWake
    \/ CheckThresholds
    \/ Tick

\* alerts are raised, acknowledged and swept
RetentionNext ==
    \/ MonitorCollect(CpuHot, FALSE)
    \/ MonitorCheck
    \/ CheckThresholds
    \/ \E id \in AlertIds, user \in Users : AcknowledgeAlert(id, user)
    \/ \E days \in DaysToKeep : CleanupOldData(days)
    \/ CleanupStep
    \/ CleanupWake
    \/ Tick

\* the two background loops, while probes fail and while a duplicate record
\* call leaves the database locked
LoopNext ==
    \/ \E reading \in {AtThresholds, CpuHot}, probeRaises \in BOOLEAN :
          MonitorCollect(reading, probeRaises)
    \/ MonitorCheck
    \/ MonitorWake
    \/ CleanupStep
    \/ CleanupWake
    \/ LogTask(TaskIdOf(0, 17), AnyMeta, "created")
    \/ CollectGarbage
    \/ Tick

\* jobs are recorded and samples taken while sweeps run
SweepNext ==
    \/ \E tid \in TaskIds : LogTask(tid, AnyMeta, "created")
    \/ MonitorCollect(AtThresholds, FALSE)
    \/ MonitorCheck
    \/ \E days \in DaysToKeep : CleanupOldData(days)
    \/ CleanupStep
    \/ CleanupWake
    \/ CollectGarbage
    \/ Tick

MonitorNext == ThresholdNext \/ RetentionNext \/ LoopNext \/ SweepNext

DispatchNext ==
    \/ \E c \in Callers, td \in TaskDatas, connects \in BOOLEAN :
          Submit(c, td, connects) /\ UNCHANGED pipeVars
    \/ \E c \in Callers : StartWait(c)
    \/ \E c \in Callers : Poll(c)
    \/ \E c \in Callers : TimeOut(c)
    \/ \E c \in Callers : Sleep(c)
    \/ \E c \in Callers : Wake(c)
    \/ \E c \in Callers : Pop(c)
    \/ ProcGet
    \/ ProcFinish
    \/ Tick

\* the dispatcher with callers that are scheduled without delay; the
\* processor takes as long as it likes
PromptDispatchNext ==
    \/ \E c \in Callers, td \in TaskDatas, connects \in BOOLEAN :
          Submit(c, td, connects) /\ UNCHANGED pipeVars
    \/ \E c \in Callers : StartWait(c)
    \/ \E c \in Callers : Poll(c)
    \/ \E c \in Callers : TimeOut(c)
    \/ \E c \in Callers : Sleep(c)
    \/ \E c \in Callers : Wake(c)
    \/ \E c \in Callers : Pop(c)
    \/ ProcGet
    \/ ProcFinish
    \/ PromptTick

\* the dispatcher at work while the monitor thread takes a sample; the
\* thread's time.sleep(60) that follows outlasts the timeouts explored
SampledDispatchNext ==
    \/ DispatchNext
    \/ MonitorCollect(AtThresholds, FALSE)
    \/ MonitorCheck

\* the thread that runs the dispatched stages
StageThreads == {"c1"}

\* the stages that go through ColabManager, and the dispatcher serving them
DispatchedStageNext ==
    \/ \E w \in StageThreads, call \in DispatchedCalls, connects \in BOOLEAN :
          StageDispatch(w, call, connects)
    \/ \E w \in StageThreads : StageReturn(w)
    \/ \E w \in StageThreads : StartWait(w)
    \/ \E w \in StageThreads : Poll(w)
    \/ \E w \in StageThreads : TimeOut(w)
    \/ \E w \in StageThreads : Sleep(w)
    \/ \E w \in StageThreads : Wake(w)
    \/ \E w \in StageThreads : Pop(w)
    \/ ProcGet
    \/ ProcFinish
    \/ Tick

\* the stages that run the encoder locally, called from two threads
AssemblyNext ==
    \/ \E w \in Callers, call \in AssemblyCalls : AssembleBegin(w, call)
    \/ \E w \in Callers : AssembleEnd(w)
    \/ Tick

\* one caller extends a clip, extends what it got back, or loops a clip
ExtendNext ==
    \/ \E w \in StageThreads, call \in ExtendCalls : AssembleBegin(w, call)
    \/ \E w \in StageThreads : AssembleEnd(w)
    \/ Tick

PipelineNext == DispatchedStageNext \/ AssemblyNext \/ ExtendNext

\* The whole program.  ColabManager never calls TaskMonitor and TaskMonitor
\* never calls ColabManager: the two share the clock and nothing else, so each
\* is explored under its own specification below, and TaskMonitor's job
\* table and its background threads each under their own.
Next ==
    StoreNext \/ MonitorNext \/ SampledDispatchNext \/ PromptDispatchNext \/ PipelineNext

\* the job store under arbitrary calls of its operations
StoreSpec == Init /\ [][StoreNext]_vars

\* TaskMonitor's sampling and threshold evaluation
ThresholdSpec == Init /\ [][ThresholdNext]_vars

\* TaskMonitor's alerts: raised, acknowledged, swept
RetentionSpec == Init /\ [][RetentionNext]_vars

\* TaskMonitor's sweep of job rows and samples
SweepSpec == Init /\ [][SweepNext]_vars

\* TaskMonitor's background loops under failing probes and a locked database
LoopSpec == Init /\ [][LoopNext]_vars

\* the dispatcher: callers, the queue and the processor thread
DispatchSpec == Init /\ [][DispatchNext]_vars

\* the dispatcher with promptly scheduled callers
PromptDispatchSpec == Init /\ [][PromptDispatchNext]_vars

\* the dispatcher, sampled by TaskMonitor's monitor thread
SampledDispatchSpec == Init /\ [][SampledDispatchNext]_vars

\* the processor thread is a live thread: it takes its next step eventually
FairDispatchSpec == DispatchSpec /\ WF_vars(ProcGet \/ ProcFinish)

\* VideoPipeline's dispatched stages over the dispatcher
DispatchedStageSpec == Init /\ [][DispatchedStageNext]_vars

\* VideoPipeline's local stages
AssemblySpec == Init /\ [][AssemblyNext]_vars

\* extend_video and create_seamless_loop over the durations of their inputs
ExtendSpec == Init /\ [][ExtendNext]_vars

Spec == Init /\ [][Next]_vars

(***************************************************************************)
(* Properties.                                                             *)
(***************************************************************************)
Range(seq) == {seq[i] : i \in 1..Len(seq)}
IsPrefix(a, b) == Len(a) <= Len(b) /\ a = SubSeq(b, 1, Len(a))

\* the call that made this step: log_task(tid, ..., status)
LoggedNow(tid, status) ==
    /\ task_history'.count = task_history.count + 1
    /\ task_history'.last = <<tid, status>>

\* C1: once the stored status of a job is completed, failed or cancelled, no
\* log_task or update_task_result call changes it again.
C1_TerminalStatusIsFinal ==
    [][\A tid \in TaskIds :
          StatusOf(tid) \in TerminalStatuses => StatusOf(tid)' = StatusOf(tid)]_vars

\* the edges of queued -> running -> {completed, failed, cancelled} and
\* queued -> cancelled, in the code's names
LegalEdge(a, b) ==
    \/ a = "none" /\ b = "created"
    \/ a = "created" /\ b \in {"started", "cancelled"}
    \/ a = "started" /\ b \in TerminalStatuses

\* C2: every change of a job's stored status follows an edge of the state
\* machine: never created -> completed/failed, never to started from anything
\* but created.
C2_OnlyLegalEdges ==
    [][\A tid \in TaskIds :
          StatusOf(tid)' # StatusOf(tid) => LegalEdge(StatusOf(tid), StatusOf(tid)')]_vars

\* C3: the processor starts jobs in the order they were enqueued and writes
\* their outcomes in that same order; what it has not started yet is exactly
\* the queue, in order.
C3_FifoOrder ==
    /\ IsPrefix(startedJobs, enqueued)
    /\ IsPrefix(finishedJobs, startedJobs)
    /\ enqueued = startedJobs \o [i \in 1..Len(task_queue) |-> task_queue[i].job]
    /\ Len(startedJobs) - Len(finishedJobs) = (IF procPc = "exec" THEN 1 ELSE 0)

\* C3's case: two callers wait at once, one job is being executed and the other
\* waits behind it in the queue
C3_Witness ==
    /\ procPc = "exec"
    /\ Len(task_queue) >= 1
    /\ \A c \in Callers : callerPc[c] \in {"poll", "deadline", "sleep"}

\* the step in which the processor ends the invocation of the job it holds
ProcessorEndsInvocation == procPc = "exec" /\ finishedJobs' # finishedJobs

\* C4: when the invocation of a job raises, the processor writes a failed
\* outcome carrying the exception's message for that job and goes back to
\* waiting on the queue; it never stops, and every job that was enqueued gets
\* its invocation ended.
C4_ExceptionRecordedLoopContinues ==
    /\ [][(ProcessorEndsInvocation /\ Invoke(procTask.data).raises) =>
            /\ procTask.task_id \in DOMAIN results'
            /\ results'[procTask.task_id].success = FALSE
            /\ results'[procTask.task_id].error = Invoke(procTask.data).value
            /\ results'[procTask.task_id].job = procTask.job
            /\ procPc' = "get"]_vars
    /\ [](procPc \in {"get", "exec"})
    /\ \A j \in 1..MaxJobs : (j \in Range(enqueued)) ~> (j \in Range(finishedJobs))

\* C4's case: a job whose invocation raised got its failed outcome, and a job
\* enqueued behind it has been processed since
C4_Witness ==
    \E i, j \in 1..Len(finishedJobs) :
       /\ i < j
       /\ \E c \in Callers :
            /\ callerRet[c].job = finishedJobs[i]
            /\ callerRet[c].success = FALSE
            /\ callerRet[c].error = "Unknown action: render_video"

\* a job is where the dispatcher left it: waiting, being executed, or done
JobInQueue(j) == \E i \in 1..Len(task_queue) : task_queue[i].job = j
JobKept(j) ==
    \/ JobInQueue(j)
    \/ procPc = "exec" /\ procTask.job = j
    \/ j \in Range(finishedJobs)

\* C5: a call that finds no outcome and its deadline passed returns the timeout
\* error (it goes on waiting only while the deadline has not passed), and that
\* return touches neither the queue, nor the processor, nor the results: the
\* job stays where it was, waiting, being executed or done.
C5_TimeoutLeavesJobAlone ==
    /\ [][\A c \in Callers :
            (callerPc[c] = "deadline" /\ callerPc'[c] = "idle") =>
               /\ now - callerStart[c] > TimeoutSeconds
               /\ callerRet'[c] = TimeoutOutcome
               /\ task_queue' = task_queue
               /\ procPc' = procPc /\ procTask' = procTask
               /\ results' = results]_vars
    /\ [][\A c \in Callers :
            (callerPc[c] = "deadline" /\ callerPc'[c] = "sleep") =>
               ~(now - callerStart[c] > TimeoutSeconds)]_vars
    /\ [](\A j \in timedOut : JobKept(j))

\* C5's case: a caller has returned the timeout while its job is still waiting
\* in the queue
C5_Witness ==
    \E c \in Callers :
       /\ callerPc[c] = "idle"
       /\ callerRet[c] = TimeoutOutcome
       /\ \E j \in timedOut : JobInQueue(j)

\* C6: once the worker has finished a job whose caller had already returned a
\* timeout, the store holds that job as completed, with its result.
C6_TimedOutJobCompletedInStore ==
    \A tid \in DOMAIN results :
       (results[tid].job \in timedOut /\ results[tid].success) =>
          \E r \in tasks : /\ r.task_id = tid
                           /\ r.status = "completed"
                           /\ r.result_path # NULL

\* C7: every job the dispatcher holds has a row in the store: status created
\* (queued) while it waits in the queue, started (running) while it is executed.
C7_AcceptedJobRecorded ==
    /\ \A i \in 1..Len(task_queue) :
          \E r \in tasks : r.task_id = task_queue[i].task_id /\ r.status = "created"
    /\ procPc = "exec" =>
          \E r \in tasks : r.task_id = procTask.task_id /\ r.status = "started"

\* C8: log_task(..., 'created') under an id that already has a row is rejected:
\* the call raises, the table is what it was, and the id still has one row.
C8_DuplicateRecordRejected ==
    [][\A tid \in TaskIds :
          (HasRow(tid) /\ LoggedNow(tid, "created")) =>
             /\ tasks' = tasks
             /\ raised' # "none"
             /\ Cardinality(RowsOf(tid)') = 1]_vars

\* C8's case: a duplicate 'created' was just rejected for a job that had
\* already moved on, so an overwrite would have shown
C8_Witness ==
    \E tid \in TaskIds :
       /\ task_history.last = <<tid, "created">>
       /\ raised = "IntegrityError"
       /\ HasRow(tid)
       /\ RowOf(tid).status = "completed"
       /\ RowOf(tid).created_at < now

\* the jobs the dispatcher holds: waiting in the queue or being executed
HeldTasks ==
    Range(task_queue) \cup (IF procPc = "exec" THEN {procTask} ELSE {})

\* C9: two different jobs accepted by the dispatcher never carry the same id.
C9_JobIdsUnique ==
    \A a, b \in HeldTasks : a.job # b.job => a.task_id # b.task_id

\* C10: a job whose status is completed, failed or cancelled has exactly one of
\* result_path and error_message set.
C10_ExactlyOneOfResultAndError ==
    \A r \in tasks :
       r.status \in TerminalStatuses =>
          (r.result_path # NULL) # (r.error_message # NULL)

\* the step is an execute_task call of c getting past the connection check
SubmittedBy(c) ==
    /\ callerPc[c] = "idle"
    /\ callerRet'[c] # callerRet[c] \/ callerPc'[c] # callerPc[c]

\* C11: a submission that finds the manager not connected calls
\* connect_to_colab once; if that fails the call returns the not-connected
\* error at once and the queue is what it was; if it succeeds the job is
\* appended to the queue and the caller waits for it.  While the manager has
\* never connected, nothing is queued, executed or stored as an outcome.
C11_ReconnectOnceElseFail ==
    /\ [][\A c \in Callers :
            (SubmittedBy(c) /\ ~is_connected) =>
               /\ connectAttempts' = 1
               /\ \/ /\ ~is_connected'
                     /\ callerRet'[c] = NotConnectedOutcome
                     /\ callerPc'[c] = "idle"
                     /\ task_queue' = task_queue
                     /\ enqueued' = enqueued
                  \/ /\ is_connected'
                     /\ callerPc'[c] = "start"
                     /\ Len(task_queue') = Len(task_queue) + 1
                     /\ task_queue'[Len(task_queue')].job = callerJob'[c]
                     /\ task_queue'[Len(task_queue')].task_id = callerTask'[c]]_vars
    /\ [][\A c \in Callers : (SubmittedBy(c) /\ is_connected) => connectAttempts' = 0]_vars
    /\ [](~is_connected =>
             task_queue = <<>> /\ enqueued = <<>> /\ procPc = "get" /\ results = <<>>)

\* C11's case: one call was refused for want of a connection, and a later call
\* connected and had its job processed
C11_Witness ==
    /\ \E c \in Callers : callerPc[c] = "idle" /\ callerRet[c] = NotConnectedOutcome
    /\ \E d \in Callers : callerRet[d].success /\ callerRet[d].job = 1
    /\ is_connected

\* the jobs that are inside _execute_colab_task
InsideExecute == Range(startedJobs) \ Range(finishedJobs)

\* C12: at most one job is inside _execute_colab_task, and it is the one the
\* processor thread holds.
C12_OneJobAtATime ==
    /\ Cardinality(InsideExecute) <= 1
    /\ \A j \in InsideExecute : procPc = "exec" /\ procTask.job = j

\* C12's case: both callers are still blocked in execute_task, the first job
\* is done and the second is being executed
C12_Witness ==
    /\ \A c \in Callers : callerPc[c] \in {"start", "poll", "deadline", "sleep"}
    /\ finishedJobs = <<1>>
    /\ InsideExecute = {2}

\* the caller is inside the wait loop of execute_task
Waiting(c) == callerPc[c] \in {"start", "poll", "deadline", "sleep"}

\* C13: while a caller waits in execute_task, another caller's submission is
\* accepted into the queue at once, and the processor can take and finish
\* jobs, whatever the waiting caller does.
C13_WaitingBlocksOnlyItself ==
    /\ \A c, d \in Callers :
          (c # d /\ Waiting(c) /\ callerPc[d] = "idle" /\ nextJob < MaxJobs) =>
             ENABLED (\E td \in TaskDatas :
                        /\ Submit(d, td, TRUE)
                        /\ Len(task_queue') = Len(task_queue) + 1)
    /\ (procPc = "exec") => ENABLED ProcFinish
    /\ (procPc = "get" /\ task_queue # <<>>) => ENABLED ProcGet

\* C13's case: one caller sleeps in its wait loop while its job is executed,
\* and the other caller's job has been accepted behind it
C13_Witness ==
    \E c, d \in Callers :
       /\ callerPc[c] = "sleep"
       /\ procPc = "exec" /\ procTask.job = callerJob[c]
       /\ callerPc[d] = "start"
       /\ JobInQueue(callerJob[d])

\* C14: cancelling (log_task with 'cancelled') a job that is already running or
\* terminal changes nothing of its row.
C14_CancelOnlyWhileQueued ==
    [][\A tid \in TaskIds :
          (LoggedNow(tid, "cancelled") /\ StatusOf(tid) \in {"started"} \cup TerminalStatuses)
             => RowsOf(tid)' = RowsOf(tid)]_vars

\* the alert is gone from the table after the step
AlertGone(a) == ~\E b \in alerts' : b.id = a.id

\* the step is a sweep with this days_to_keep, called directly or by the loop
SweptWith(days) ==
    \/ CleanupOldData(days)
    \/ days = DefaultDaysToKeep /\ CleanupStep

\* C15: a sweep deletes exactly the alerts that are acknowledged and older than
\* its horizon, and no step of any kind deletes an unacknowledged alert or an
\* alert raised at the present time.
C15_SweepDeletesAcknowledgedOldAlerts ==
    /\ [][\A days \in DaysToKeep \cup {DefaultDaysToKeep} :
            SweptWith(days) =>
               \A a \in alerts :
                  AlertGone(a) <=> (a.acknowledged /\ now - a.timestamp > days * DayLength)]_vars
    /\ [][\A a \in alerts : AlertGone(a) => (a.acknowledged /\ a.timestamp < now)]_vars

\* C15's case: a sweep has deleted an alert while an unacknowledged alert
\* older than the horizon and an acknowledged alert of the present are kept
C15_Witness ==
    /\ \E id \in 1..(nextAlertId - 1) : ~\E a \in alerts : a.id = id
    /\ \E a \in alerts : ~a.acknowledged /\ now - a.timestamp > DefaultDaysToKeep * DayLength
    /\ \E a \in alerts : a.acknowledged /\ a.timestamp = now

\* the step is one evaluation of the thresholds, direct or by the monitor loop
ThresholdsEvaluated == CheckThresholds \/ MonitorCheck

\* C16: one evaluation of a cached reading with CPU 95 and nothing else above
\* its threshold adds exactly one alert, high_cpu_usage / warning, whatever
\* alerts exist already.
C16_CpuReadingAddsOneAlertEachTime ==
    [][(ThresholdsEvaluated /\ metrics.cpu = 95 /\ metrics.memory <= 85
                            /\ metrics.disk <= 90 /\ ~dbLocked) =>
          /\ alerts \subseteq alerts'
          /\ Cardinality(alerts' \ alerts) = 1
          /\ \A a \in alerts' \ alerts :
                /\ a.alert_type = "high_cpu_usage"
                /\ a.alert_level = "warning"
                /\ ~a.acknowledged]_vars

\* C16's case: one sample with CPU 95 has been evaluated three times and three
\* alerts of the same type stand in the table
C16_Witness ==
    /\ nextMetricId = 2
    /\ metrics.cpu = 95
    /\ Cardinality({a \in alerts : a.alert_type = "high_cpu_usage"
                                   /\ a.message = <<"high_cpu_usage", 95>>}) = 3

\* the alerts the thresholds call for, by strict comparison
ExpectedAlerts(m) ==
    (IF m.cpu > 90 THEN {<<"high_cpu_usage", "warning">>} ELSE {})
    \cup (IF m.memory > 85 THEN {<<"high_memory_usage", "warning">>} ELSE {})
    \cup (IF m.disk > 90 THEN {<<"high_disk_usage", "critical">>} ELSE {})

\* C17: an evaluation adds one alert for each of cpu > 90, memory > 85 and
\* disk > 90 that holds of the cached reading, and nothing else.
C17_StrictIndependentThresholds ==
    [][(ThresholdsEvaluated /\ ~dbLocked) =>
          /\ alerts \subseteq alerts'
          /\ {<<a.alert_type, a.alert_level>> : a \in alerts' \ alerts} = ExpectedAlerts(metrics)
          /\ Cardinality(alerts' \ alerts) = Cardinality(ExpectedAlerts(metrics))]_vars

\* C17's case: a reading exactly at every threshold has been evaluated and
\* raised nothing, and another reading raised two alerts at once
C17_Witness ==
    /\ metrics = CacheOf(AtThresholds)
    /\ monPc = "sleep"
    /\ \E a, b \in alerts : a.id # b.id /\ a.timestamp = b.timestamp
                            /\ a.alert_type # b.alert_type
    /\ Cardinality(alerts) = 2

\* C18: the queue depth a sample persists is the number of jobs waiting in
\* the dispatcher's queue at that moment.
C18_SampledDepthIsDispatcherQueue ==
    [][\A m \in system_metrics' \ system_metrics : m.queue_size = Len(task_queue)]_vars

\* C19: a failed sampling step or sweep persists nothing of that step, sends
\* its loop to sleep and leaves it able to wake and run its step again: neither
\* loop ever ends.
C19_FailuresNeverEndLoops ==
    /\ [](monPc \in {"collect", "check", "sleep"} /\ cleanPc \in {"cleanup", "sleep"})
    /\ [][(monPc \in {"collect", "check"} /\ monPc' # monPc /\ monLog' # "none") =>
            /\ monPc' = "sleep"
            /\ monWake' > now
            /\ system_metrics' = system_metrics
            /\ alerts' = alerts]_vars
    /\ [][(cleanPc = "cleanup" /\ cleanPc' # cleanPc /\ cleanLog' # "none") =>
            /\ tasks' = tasks /\ system_metrics' = system_metrics /\ alerts' = alerts
            /\ cleanPc' = "sleep"
            /\ cleanWake' > now]_vars
    /\ []((monPc = "sleep" /\ now >= monWake) => ENABLED MonitorWake)
    /\ []((cleanPc = "sleep" /\ now >= cleanWake) => ENABLED CleanupWake)
    /\ []((monPc = "collect" /\ nextMetricId <= MaxSamples) =>
             ENABLED (\E reading \in Readings : MonitorCollect(reading, FALSE)))
    /\ [](cleanPc = "cleanup" => ENABLED CleanupStep)

\* C19's case: both loops are back at their step, at a later time, after the
\* step before failed
C19_Witness ==
    /\ monPc = "collect" /\ monLog # "none"
    /\ cleanPc = "cleanup" /\ cleanLog = "cleanup failed"
    /\ now > 0

\* C20: a transition call naming an id that has no row reports not-found to
\* its caller and advances nothing.
C20_UnknownIdReported ==
    [][\A tid \in TaskIds, status \in Statuses \ {"created"} :
          (LoggedNow(tid, status) /\ ~HasRow(tid) /\ ~dbLocked) =>
             /\ raised' = "not found"
             /\ active_tasks' = active_tasks]_vars

\* C21: a call whose durable write fails leaves the task history and the
\* active-task table exactly as they were.
C21_FailedWriteLeavesMemory ==
    [][(raised' # "none") =>
          (task_history' = task_history /\ active_tasks' = active_tasks)]_vars

\* C22: log_task(..., 'started') on a job whose status is started changes no
\* field of its row and raises nothing.
C22_RunningToRunningIsNoOp ==
    [][\A tid \in TaskIds :
          (LoggedNow(tid, "started") /\ StatusOf(tid) = "started" /\ ~dbLocked) =>
             /\ RowsOf(tid)' = RowsOf(tid)
             /\ raised' = "none"]_vars

\* C23: a terminal job that was started has completed_at and duration, with
\* started_at <= completed_at and duration their difference; a terminal job
\* that was never started has no duration; duration is never set without both
\* timestamps.
C23_TimestampsAndDuration ==
    \A r \in tasks :
       /\ (r.status \in TerminalStatuses /\ r.started_at # NoTime) =>
             /\ r.completed_at # NoTime
             /\ r.started_at <= r.completed_at
             /\ r.duration = r.completed_at - r.started_at
       /\ (r.status \in TerminalStatuses /\ r.started_at = NoTime) => r.duration = NoTime
       /\ r.duration # NoTime => (r.started_at # NoTime /\ r.completed_at # NoTime)

\* the row the alert has after the step, if it is still there
AlertAfter(a) == CHOOSE b \in alerts' : b.id = a.id

\* C24: an alert keeps its timestamp, type, severity and message for life and
\* never goes back to unacknowledged; a step that changes an alert is an
\* acknowledge_alert of that alert's id, writes acknowledged, who and when on
\* it, and touches no other alert; acknowledging an unknown id changes nothing.
C24_AcknowledgeIsOnlyMutation ==
    /\ [][\A a \in alerts :
            ~AlertGone(a) =>
               /\ AlertAfter(a).timestamp = a.timestamp
               /\ AlertAfter(a).alert_type = a.alert_type
               /\ AlertAfter(a).alert_level = a.alert_level
               /\ AlertAfter(a).message = a.message
               /\ a.acknowledged => AlertAfter(a).acknowledged
               /\ AlertAfter(a) # a =>
                     /\ \E user \in Users :
                           AlertAfter(a) = [a EXCEPT !.acknowledged = TRUE,
                                                     !.acknowledged_by = user,
                                                     !.acknowledged_at = now]
                     /\ \A o \in alerts : o.id # a.id => o \in alerts'
                     /\ Cardinality(alerts') = Cardinality(alerts)]_vars
    /\ [][\A id \in AlertIds, user \in Users :
            (AcknowledgeAlert(id, user) /\ ~\E a \in alerts : a.id = id) =>
               alerts' = alerts]_vars

\* C24's case: of two alerts raised together one was acknowledged later and the
\* other stands as it was raised
C24_Witness ==
    \E a, b \in alerts :
       /\ a.id # b.id /\ a.timestamp = b.timestamp
       /\ a.acknowledged /\ a.acknowledged_by = "alice" /\ a.acknowledged_at > a.timestamp
       /\ ~b.acknowledged /\ b.acknowledged_by = NULL /\ b.acknowledged_at = NoTime

\* C25: a sweep that gets its write lock deletes exactly the job rows created
\* more than days_to_keep days ago and exactly the samples older than the
\* fixed horizon, whatever days_to_keep is, and a direct call returns normally
\* whether or not anything matched.
C25_SweepDeletesOldJobsAndSamples ==
    [][\A days \in DaysToKeep \cup {DefaultDaysToKeep} :
          (SweptWith(days) /\ ~dbLocked) =>
             /\ tasks' = {r \in tasks : now - r.created_at <= days * DayLength}
             /\ system_metrics' =
                   {m \in system_metrics : now - m.timestamp <= MetricsDays * DayLength}
             /\ raised' = "none" \/ CleanupStep
             /\ cleanLog' = "none" \/ CleanupOldData(days)]_vars

\* C25's case: a sweep with days_to_keep 0 has deleted the only job row while
\* a sample older than that, inside the samples' own horizon, is kept
C25_Witness ==
    /\ tasks = {} /\ nextRowId = 2
    /\ \E m \in system_metrics : m.timestamp < now /\ now - m.timestamp <= MetricsDays * DayLength
    /\ raised = "none"

\* thread w makes a stage call in this step
CalledNow(w) == nextCall' = nextCall + 1 /\ stageCall'[w].call = nextCall'

\* a path the call was given does not exist
InputMissing(call) ==
    \/ call.stage \in {"upscale_selected", "create_video_from_image", "extend_video",
                       "super_resolution", "create_seamless_loop", "finalize_video"}
       /\ ~Exists(call.input)
    \/ call.stage = "finalize_video" /\ ~Exists(call.second)

\* C26: a call of upscale, assembleVideo, extend, superResolve, loop or
\* finalize whose input path does not exist ends in that step with a
\* file-not-found error, puts no job in the queue and runs no encoder.
C26_MissingInputFailsAtOnce ==
    [][\A w \in Callers :
          (CalledNow(w) /\ InputMissing(stageCall'[w]))
          => /\ stagePc'[w] = "idle"
             /\ stageRet'[w].kind = "FileNotFoundError"
             /\ stageRet'[w].runs = <<>>
             /\ task_queue' = task_queue
             /\ nextJob' = nextJob]_vars

\* C27: no two writes of an output artifact, by any stage calls at any times,
\* go to the same path.
C27_OutputPathsNeverRepeat ==
    \A i, j \in 1..Len(written) : i # j => written[i] # written[j]

\* the encoder invocation `i` of the call's runs exited non-zero
FailedRun(ret, i) == i \in 1..Len(ret.runs) /\ ~ret.runs[i].ok

\* C28: a stage call in which an encoder invocation exited non-zero ends with
\* an error and not with a result, and the failed invocation is the last one
\* the call made (no retry, nothing after it); the volume, merge and mux
\* steps of create_video_from_image included.
C28_EncoderFailureEndsTheCall ==
    \A w \in Callers :
       \A i \in 1..Len(stageRet[w].runs) :
          FailedRun(stageRet[w], i)
          => /\ stageRet[w].kind = "Exception"
             /\ ~stageRet[w].wrote
             /\ i = Len(stageRet[w].runs)

\* the outcome the processor stores when the remote invocation raised
RemoteFailureOutcome == [NoOutcome EXCEPT !.error = "Unknown action: render_video"]

\* thread w's dispatched stage call ends in this step
StageEndsNow(w) == stagePc[w] = "dispatched" /\ stagePc'[w] = "idle"

\* C29: when execute_task returned a timeout, the dispatched stage ends with
\* an error whose kind is not the kind it raises for a remote failure, and
\* writes no artifact.
C29_TimeoutHasItsOwnKind ==
    [][\A w \in Callers :
          (StageEndsNow(w) /\ callerRet[w] = TimeoutOutcome)
          => /\ stageRet'[w].kind # "returned"
             /\ stageRet'[w].kind # StageFailure(stageCall[w], RemoteFailureOutcome).kind
             /\ ~stageRet'[w].wrote
             /\ written' = written]_vars

\* thread w leaves the with block of a local stage in this step
AssemblyEndsNow(w) == stagePc[w] = "assembling" /\ stagePc'[w] = "idle"

\* C30: when a local stage call leaves its with block, by return or by any
\* exception, its temporary directory no longer exists; the directory a call
\* creates did not exist before, and two calls inside their with blocks at
\* the same time hold different directories.
C30_WorkingDirectoryScopedAndPrivate ==
    [][\A w \in Callers :
          /\ AssemblyEndsNow(w) => stageDir[w] \notin tmpDirs'
          /\ (CalledNow(w) /\ stagePc'[w] = "assembling")
             => stageDir'[w] \notin tmpDirs
          /\ stagePc'[w] = "assembling"
             => /\ stageDir'[w] \in tmpDirs'
                /\ \A v \in Callers \ {w} :
                      stagePc'[v] = "assembling" => stageDir'[v] # stageDir'[w]]_vars

\* one call has ended on an encoder failure while another call is inside its
\* with block: the only directory left is the running call's
C30_Witness ==
    /\ stagePc["c1"] = "assembling"
    /\ stagePc["c2"] = "idle"
    /\ stageRet["c2"].kind = "Exception"
    /\ stageRet["c2"].runs # <<>>
    /\ stageCall["c2"].call < stageCall["c1"].call
    /\ tmpDirs = {stageDir["c1"]}

\* thread w calls extend_video in this step on a clip that is long enough: its
\* duration reaches the target, or it is what extend_video returned for the
\* same target
ExtendsLongEnoughNow(w) ==
    /\ CalledNow(w)
    /\ stageCall'[w].stage = "extend_video"
    /\ Exists(stageCall'[w].input)
    /\ \/ stageCall'[w].duration >= stageCall'[w].target
       \/ /\ stageCall'[w].input = PreviousOutput
          /\ lastExtended.target = stageCall'[w].target

IsFloorPlusOne(r, total, d) == (r - 1) * d <= total /\ total < r * d

\* C32: an extend_video call that extended a clip of duration d > 0 to a
\* target T > d used repeats = floor(T/d) + 1, wrote that many entries to its
\* list, concatenated repeats*d >= T seconds and trimmed them to T; a
\* create_seamless_loop call used floor(totalSeconds/d) + 1, and nothing was
\* dispatched.
C32_RepeatsArithmetic ==
    \A w \in Callers :
       LET call == stageCall[w]
           ret == stageRet[w]
       IN /\ (call.stage = "extend_video" /\ ret.wrote)
             => /\ IsFloorPlusOne(ret.repeats, call.target, call.duration)
                /\ ret.entries = ret.repeats
                /\ ret.concat = ret.repeats * call.duration
                /\ ret.concat >= call.target
                /\ ret.duration = call.target
          /\ (call.stage = "create_seamless_loop" /\ ret.wrote)
             => /\ IsFloorPlusOne(ret.repeats, TotalSeconds(call), call.duration)
                /\ nextJob = 0
                /\ task_queue = <<>>

\* a 5 second clip was extended to 12 seconds with 3 repeats
C32_Witness ==
    /\ stageCall["c1"].stage = "extend_video"
    /\ stageCall["c1"].duration = 5
    /\ stageCall["c1"].target = 12
    /\ stageRet["c1"].wrote
    /\ stageRet["c1"].repeats = 3
    /\ stageRet["c1"].duration = 12

\* the steps of the encoder invocations a call made, in order
StepsOf(ret) == [i \in 1..Len(ret.runs) |-> ret.runs[i].step]

\* every encoder invocation of the call exited with status 0
AllRunsOk(ret) == \A i \in 1..Len(ret.runs) : ret.runs[i].ok

\* the volume step of track i applied the track's level / 100
ScaledByLevel(call, ret, i) ==
    /\ ret.runs[i + 1].arg = call.tracks[i].path
    /\ ret.runs[i + 1].gain[1] * 100 = call.tracks[i].volume * ret.runs[i + 1].gain[2]

\* C33: a create_video_from_image call whose encoder steps all succeeded ran,
\* after the frames step: nothing for no track (the video has no audio); the
\* volume step and the mux for one track, without a merge; for two or more
\* tracks one volume step each at level/100, one 2-channel merge and the mux
\* with -shortest.
C33_AudioPathByTrackCount ==
    \A w \in Callers :
       LET call == stageCall[w]
           ret == stageRet[w]
           n == Len(call.tracks)
       IN (call.stage = "create_video_from_image" /\ ret.kind = "returned"
             /\ AllRunsOk(ret))
          => /\ n = 0 => StepsOf(ret) = <<"frames">> /\ ~ret.audio
             /\ n = 1 => /\ StepsOf(ret) = <<"frames", "volume", "mux">>
                         /\ ScaledByLevel(call, ret, 1)
                         /\ ret.audio
             /\ n >= 2 => /\ Len(ret.runs) = n + 3
                          /\ \A i \in 1..n : /\ ret.runs[i + 1].step = "volume"
                                              /\ ScaledByLevel(call, ret, i)
                          /\ ret.runs[n + 2].step = "merge"
                          /\ ret.runs[n + 2].arg = "-ac 2"
                          /\ ret.runs[n + 3].step = "mux"
                          /\ ret.runs[n + 3].arg = "-shortest"
                          /\ ret.audio

\* one call mixed two tracks at levels 50 and 100, another one track
C33_Witness ==
    /\ stageCall["c1"].stage = "create_video_from_image"
    /\ Len(stageCall["c1"].tracks) = 2
    /\ stageRet["c1"].kind = "returned"
    /\ AllRunsOk(stageRet["c1"])
    /\ stageRet["c1"].runs[2].gain = <<50, 100>>
    /\ stageRet["c1"].runs[3].gain = <<100, 100>>
    /\ stageCall["c2"].stage = "create_video_from_image"
    /\ Len(stageCall["c2"].tracks) = 1
    /\ stageRet["c2"].kind = "returned"
    /\ AllRunsOk(stageRet["c2"])

\* the row the latest successful sampling step appended
LatestSample == CHOOSE m \in system_metrics : m.id = nextMetricId - 1

\* a sampling step has just written its sample and refreshed the cache
SampledNow == monPc = "check" /\ system_metrics # {}

\* C34: after a successful sampling step the cached reading has the values
\* of the row just appended: cpu, memory, disk, the network counters, the
\* active-job count and the queue depth.
C34_CacheEqualsPersistedRow ==
    SampledNow
    => /\ metrics.cpu = LatestSample.cpu_percent
       /\ metrics.memory = LatestSample.memory_percent
       /\ metrics.disk = LatestSample.disk_usage_percent
       /\ metrics.network_sent_mb = LatestSample.network_sent_mb
       /\ metrics.network_recv_mb = LatestSample.network_recv_mb
       /\ "active_tasks" \in DOMAIN metrics
       /\ metrics.active_tasks = LatestSample.active_tasks
       /\ "queue_size" \in DOMAIN metrics
       /\ metrics.queue_size = LatestSample.queue_size

\* get_statistics: WHERE created_at >= datetime('now', '-N days')
InWindow(days) == {r \in tasks : r.created_at >= Cutoff(days)}

\* SUM(CASE WHEN status = ? THEN 1 ELSE 0 END) over the rows, `or 0`
CountWithStatus(rows, status) == Cardinality({r \in rows : r.status = status})

\* (completed / total * 100) if total > 0 else 0, as a fraction
SuccessRate(completed, total) ==
    IF total > 0 THEN <<completed * 100, total>> ELSE <<0, 1>>

\* get_statistics, lines 455-474: one entry per task_type in the window, with
\* the keys count, completed and success_rate (and avg_duration)
StatisticsByType(rows) ==
    [t \in {r.task_type : r \in rows} |->
        LET ofType == {r \in rows : r.task_type = t}
        IN [count |-> Cardinality(ofType),
            completed |-> CountWithStatus(ofType, "completed"),
            success_rate |-> SuccessRate(CountWithStatus(ofType, "completed"),
                                         Cardinality(ofType))]]

\* get_statistics(days)
GetStatistics(days) ==
    LET rows == InWindow(days)
    IN [total_tasks |-> Cardinality(rows),
        completed |-> CountWithStatus(rows, "completed"),
        failed |-> CountWithStatus(rows, "failed"),
        cancelled |-> CountWithStatus(rows, "cancelled"),
        success_rate |-> SuccessRate(CountWithStatus(rows, "completed"),
                                     Cardinality(rows)),
        by_type |-> StatisticsByType(rows)]

\* rate is 100 * completed / total, or 0 when total is 0
IsSuccessRate(rate, completed, total) ==
    IF total = 0 THEN rate[1] = 0
    ELSE rate[1] * total = 100 * completed * rate[2]

RECURSIVE SumOver(_, _)
\* the sum of f over the set S of its arguments
SumOver(f, S) ==
    IF S = {} THEN 0
    ELSE LET x == CHOOSE y \in S : TRUE
         IN f[x] + SumOver(f, S \ {x})

\* C35: get_statistics over a window reports, overall and for every kind, the
\* number of jobs created in the window, how many of them are completed,
\* failed and cancelled (no more than the total together) and the success
\* rate 100 * completed / total; the per-kind totals add up to the overall
\* total.
C35_StatisticsByStatusAndKind ==
    \A days \in DaysToKeep :
       LET stats == GetStatistics(days)
           counts == [t \in DOMAIN stats.by_type |-> stats.by_type[t].count]
       IN /\ stats.total_tasks = Cardinality(InWindow(days))
          /\ stats.completed + stats.failed + stats.cancelled <= stats.total_tasks
          /\ IsSuccessRate(stats.success_rate, stats.completed, stats.total_tasks)
          /\ SumOver(counts, DOMAIN counts) = stats.total_tasks
          /\ \A t \in DOMAIN stats.by_type :
                LET kind == stats.by_type[t]
                IN /\ IsSuccessRate(kind.success_rate, kind.completed, kind.count)
                   /\ {"failed", "cancelled"} \subseteq DOMAIN kind
                   /\ kind.completed + kind.failed + kind.cancelled <= kind.count

\* the step is c's execute_task returning the entry it popped from the table
ReturnsPopped(c) ==
    /\ callerPc[c] = "pop"
    /\ callerPc'[c] = "idle"
    /\ callerTask[c] \in DOMAIN results

\* C36: an execute_task call that returns an outcome other than the timeout
\* returns the outcome the processor produced for the job this call enqueued,
\* never the outcome of a job another call enqueued.
C36_OutcomeIsCallersOwn ==
    [][\A c \in Callers :
          ReturnsPopped(c) => callerRet'[c].job = callerJob[c]]_vars

\* get_status counts as active the entries completed in the last 300 seconds
RecentSeconds == 300

\* get_status: the queue's size, the entries of the results table completed
\* recently, and all its entries
GetStatus ==
    [connected |-> is_connected,
     queue_size |-> Len(task_queue),
     active_tasks |-> Cardinality({k \in DOMAIN results :
                                     results[k].completed_at > now - RecentSeconds}),
     total_processed |-> Cardinality(DOMAIN results)]

\* c is inside an execute_task call
InsideCall(c) == callerPc[c] # "idle"

\* C37: the results table holds an entry only for a job whose caller is still
\* inside execute_task; when the queue is empty, the processor is idle and no
\* caller waits, the table is empty and get_status reports nothing processed.
C37_ResultsOnlyForWaitingCallers ==
    /\ \A tid \in DOMAIN results :
          \E c \in Callers : InsideCall(c) /\ callerJob[c] = results[tid].job
    /\ (task_queue = <<>> /\ ProcessorFree /\ \A c \in Callers : ~InsideCall(c))
          => GetStatus.total_processed = 0

\* C38: a task id is in the in-memory table of active tasks exactly when the
\* store holds a row for it whose status is started; a job that is terminal in
\* the store, or has no row, is not listed as active.
C38_ActiveIffStartedInStore ==
    \A tid \in TaskIds : tid \in active_tasks <=> StatusOf(tid) = "started"

\* the second in which c's call built its task id and enqueued its job
EnqueuedAt(c) == callerTask[c][2]

\* the step is c's poll of the results table
PollsNow(c) == callerPc[c] = "poll" /\ callerPc'[c] # "poll"

\* the step is c's execute_task returning the timeout error
ReturnsTimeout(c) ==
    /\ InsideCall(c)
    /\ callerPc'[c] = "idle"
    /\ callerRet'[c] = TimeoutOutcome

\* C39: with callers scheduled without delay, an execute_task call is over no
\* later than its timeout plus one poll interval of one second after it
\* enqueued its job, whatever the processor does; a poll that finds the outcome
\* goes on to return it whether or not the deadline has passed, and the
\* timeout is returned only after a poll that found none.
C39_ReturnsWithinTimeoutPlusPoll ==
    /\ [](\A c \in Callers :
            InsideCall(c) => now - EnqueuedAt(c) <= TimeoutSeconds + 1)
    /\ [][\A c \in Callers :
            /\ (PollsNow(c) /\ callerTask[c] \in DOMAIN results) => callerPc'[c] = "pop"
            /\ ReturnsTimeout(c) => callerPc[c] = "deadline" /\ DeadlinePassed(c)]_vars

\* a caller found its outcome at the poll one interval after the deadline
C39_Witness ==
    \E c \in Callers :
       /\ callerPc[c] = "pop"
       /\ DeadlinePassed(c)
       /\ now - EnqueuedAt(c) = TimeoutSeconds + 1

\* how many times job j occurs in seq
Occurrences(seq, j) == Cardinality({i \in 1..Len(seq) : seq[i] = j})

\* the processor thread has a next step whenever there is work for it
ProcessorCanGoOn ==
    /\ procPc \in {"get", "exec"}
    /\ (procPc = "get" /\ task_queue # <<>>) => ENABLED ProcGet
    /\ procPc = "exec" => ENABLED ProcFinish

\* C40: with a processor thread that keeps being scheduled and invocations
\* that return or raise, every job put in the queue is dequeued and then gets
\* its outcome written, once; the processor's loop neither ends nor blocks
\* with work at hand, however many callers submit at the same time.
C40_EveryQueuedJobGetsOneOutcome ==
    /\ \A j \in 1..MaxJobs :
          /\ (j \in Range(enqueued)) ~> (j \in Range(startedJobs))
          /\ (j \in Range(startedJobs)) ~> (j \in Range(finishedJobs))
    /\ [](\A j \in 1..MaxJobs :
            /\ Occurrences(startedJobs, j) <= 1
            /\ Occurrences(finishedJobs, j) <= Occurrences(startedJobs, j))
    /\ []ProcessorCanGoOn

\* the jobs of two callers that were inside execute_task together have both
\* been processed, one of them behind the other in the queue
C40_Witness ==
    /\ \A c \in Callers : InsideCall(c)
    /\ Len(finishedJobs) = MaxJobs
    /\ \A j \in 1..MaxJobs :
          Occurrences(startedJobs, j) = 1 /\ Occurrences(finishedJobs, j) = 1
    /\ task_queue = <<>>
    /\ ProcessorFree
====
